---- MODULE Spec2Model ----
(***************************************************************************)
(* Model of the PS/2 keyboard command/acknowledgement protocol             *)
(* (device/command_queue.rs), of the keyboard session                      *)
(* (device/keyboard/driver.rs) and of the controller driver                *)
(* (controller/driver.rs, controller/driver/status.rs).                    *)
(*                                                                         *)
(* Option<T> is modelled as a sequence of length 0 (None) or 1 (Some).     *)
(* The device behind SendToDevice is modelled by the sequence of bytes     *)
(* handed to device.send during one call.                                  *)
(***************************************************************************)
EXTENDS Integers, Sequences, FiniteSets, TLC

VARIABLES commands, current_command, state, current_decoder, op, ret, sent, decoded, calls,
          handle, port_io, io, pc

vars == <<commands, current_command, state, current_decoder, op, ret, sent, decoded, calls,
          handle, port_io, io, pc>>

\* The keyboard session with the observations of its last call.
keyboard_vars == <<commands, current_command, state, current_decoder, sent, decoded, calls>>

\* The controller handle, the controller behind the ports, the port accesses
\* of the last controller operation and, where one call is followed access by
\* access, the position of the driver in it ("idle" otherwise).
controller_vars == <<handle, port_io, io, pc>>

(***************************************************************************)
(* Bounds of the model.                                                    *)
(***************************************************************************)
\* Capacity of the backing array of the ArrayDeque (the type parameter T).
Capacity == 2
\* Number of calls made on one Keyboard after Keyboard::new.
MaxCalls == 5
\* The same for a session that only selects scancode sets.
MaxSelectionCalls == 7
\* The same for a session that only asks for the keyboard identity.
MaxIdentifyCalls == 5

(***************************************************************************)
(* Wire constants, device/keyboard/raw.rs.                                 *)
(***************************************************************************)
DEFAULT_DISABLE == 245
ECHO == 238
ENABLE == 244
READ_ID == 242
SELECT_ALTERNATE_SCANCODES == 240
SET_DEFAULT == 246
SET_STATUS_INDICATORS == 237
SET_TYPEMATIC_RATE == 243

KEY_DETECTION_OVERRUN_SCANCODE_SET_2_AND_3 == 0
BAT_COMPLETION_CODE == 170
BAT_FAILURE_CODE == 252
ACK == 250
RESEND == 254
KEY_DETECTION_OVERRUN_SCANCODE_SET_1 == 255

\* CommandSetAllKeys and CommandSetKeyType, the values of SetAllKeys / SetKeyType.
SetAllKeys == {247, 248, 249, 250}
SetKeyType == {251, 252, 253}
\* KeyboardScancodeSetting: Set1 = 1, Set2, Set3.
KeyboardScancodeSetting == {1, 2, 3}

(***************************************************************************)
(* Inputs the model draws from.                                            *)
(***************************************************************************)
\* Bytes the device delivers to the command protocol: ACK, RESEND, ECHO and an
\* ordinary scancode.
ProtocolBytes == {250, 254, 238, 28}
\* Bytes the device delivers to the keyboard session: the above and the four
\* sentinels Keyboard::receive_data intercepts.
RecvBytes == ProtocolBytes \cup {0, 255, 252, 170}
\* Bytes the device delivers while scancode sets are selected: ACK, RESEND,
\* the three scancode set numbers, an ordinary scancode and an overrun code.
SelectionBytes == {250, 254, 1, 2, 3, 28, 0}
\* Arguments of the keyboard methods.
IndicatorArgs == {5}
SetAllKeysArgs == {250}
SetKeyTypeArgs == {251}
ScancodeArgs == {28}
TypematicArgs == {43}
ScancodeSettingArgs == {1}
\* Bytes received while the identity is read: ACK, the identity 0xAB 0x83 and an
\* overrun code.
IdentifyBytes == {250, 171, 131, 0}

(***************************************************************************)
(* Command and its factory functions, command_queue.rs 209-299.            *)
(***************************************************************************)
default_disable == [kind |-> "AckResponse", command |-> DEFAULT_DISABLE]

set_default == [kind |-> "AckResponse", command |-> SET_DEFAULT]

read_id ==
    [kind |-> "AckResponseWithReturnTwoBytes", command |-> READ_ID,
     byte1 |-> 0, byte2 |-> 0, state |-> "WaitAck"]

enable == [kind |-> "AckResponse", command |-> ENABLE]

set_status_indicators(data) ==
    [kind |-> "SendCommandAndData", command |-> SET_STATUS_INDICATORS,
     data |-> data, state |-> "WaitAck1"]

scancode_set_3_set_all_keys(command) == [kind |-> "AckResponse", command |-> command]

scancode_set_3_set_key_type(command, scancode) ==
    [kind |-> "SendCommandAndDataSingleAck", command |-> command, data |-> scancode,
     scancode_received_after_this_command |-> 0, state |-> "WaitAck1"]

\* data is delay as u8 | rate.value(): the delay occupies bits 5-6, the rate bits 0-4.
set_typematic_rate(data) ==
    [kind |-> "SendCommandAndData", command |-> SET_TYPEMATIC_RATE,
     data |-> data, state |-> "WaitAck1"]

set_alternate_scancodes(scancode_setting) ==
    [kind |-> "SendCommandAndData", command |-> SELECT_ALTERNATE_SCANCODES,
     data |-> scancode_setting, state |-> "WaitAck1"]

get_current_scancode_set ==
    [kind |-> "SendCommandAndDataAndReceiveResponse", command |-> SELECT_ALTERNATE_SCANCODES,
     data |-> 0, response |-> 0, state |-> "WaitAck1"]

echo == [kind |-> "Echo", command |-> ECHO]

\* Commands a caller of CommandQueue::add builds with the factory functions.
NewCommands ==
    {default_disable, set_default, read_id, enable, get_current_scancode_set, echo}
    \cup {set_status_indicators(d) : d \in IndicatorArgs}
    \cup {scancode_set_3_set_all_keys(c) : c \in SetAllKeysArgs}
    \cup {scancode_set_3_set_key_type(c, s) : c \in SetKeyTypeArgs, s \in ScancodeArgs}
    \cup {set_typematic_rate(d) : d \in TypematicArgs}
    \cup {set_alternate_scancodes(s) : s \in ScancodeSettingArgs}

(***************************************************************************)
(* Status, command_queue.rs 301-306.                                       *)
(***************************************************************************)
UnexpectedData(data) == [tag |-> "UnexpectedData", data |-> data]
CommandInProgress == [tag |-> "CommandInProgress"]
CommandFinished(command) == [tag |-> "CommandFinished", command |-> command]

(***************************************************************************)
(* CommandChecker, command_queue.rs 56-207.                                *)
(***************************************************************************)
\* Sends the command byte and makes the command the current one.
send_new_command(command, device) ==
    [current_command |-> <<command>>, device |-> Append(device, command.command)]

\* RESEND handling that sends the byte but does not put the command back.
ResendCommand_lost(command, device) ==
    [current_command |-> <<>>,
     device |-> send_new_command(command, device).device,
     result |-> <<>>]

\* RESEND in a first-stage state: send_new_command, then "return None".
ResendCommand(command, device) ==
    [current_command |-> <<command>>,
     device |-> send_new_command(command, device).device,
     result |-> <<>>]

\* Lines 192-202: what receive_data does after the match.
AfterMatch(command, command_finished, unexpected_data, device) ==
    IF command_finished
    THEN [current_command |-> <<>>, device |-> device,
          result |-> <<CommandFinished(command)>>]
    ELSE [current_command |-> <<command>>, device |-> device,
          result |-> IF unexpected_data # <<>>
                     THEN <<UnexpectedData(unexpected_data[1])>>
                     ELSE <<CommandInProgress>>]

\* Echo finished by ACK as well.
ReceiveEcho_accepts_ack(command, new_data, device) ==
    IF new_data \in {ECHO, ACK} THEN AfterMatch(command, TRUE, <<>>, device)
    ELSE IF new_data = RESEND THEN ResendCommand(command, device)
    ELSE AfterMatch(command, FALSE, <<new_data>>, device)

\* Echo, lines 91-100.
ReceiveEcho(command, new_data, device) ==
    IF new_data = ECHO THEN AfterMatch(command, TRUE, <<>>, device)
    ELSE IF new_data = RESEND THEN ResendCommand(command, device)
    ELSE AfterMatch(command, FALSE, <<new_data>>, device)

\* AckResponse that an ACK leaves in flight.
ReceiveAckResponse_ack_lost(command, new_data, device) ==
    IF new_data = ACK THEN AfterMatch(command, FALSE, <<>>, device)
    ELSE IF new_data = RESEND THEN ResendCommand(command, device)
    ELSE AfterMatch(command, FALSE, <<new_data>>, device)

\* AckResponse handling that retries on its own when an unexpected byte arrives.
ReceiveAckResponse_retry(command, new_data, device) ==
    IF new_data = ACK THEN AfterMatch(command, TRUE, <<>>, device)
    ELSE IF new_data = RESEND THEN ResendCommand(command, device)
    ELSE AfterMatch(command, FALSE, <<new_data>>, Append(device, command.command))

\* AckResponse, lines 101-110.
ReceiveAckResponse(command, new_data, device) ==
    IF new_data = ACK THEN AfterMatch(command, TRUE, <<>>, device)
    ELSE IF new_data = RESEND THEN ResendCommand(command, device)
    ELSE AfterMatch(command, FALSE, <<new_data>>, device)

\* AckResponseWithReturnTwoBytes that stores both bytes in byte1.
ReceiveAckResponseWithReturnTwoBytes_one_slot(command, new_data, device) ==
    CASE command.state = "WaitAck" ->
            IF new_data = ACK
            THEN AfterMatch([command EXCEPT !.state = "WaitFirstByte"], FALSE, <<>>, device)
            ELSE IF new_data = RESEND THEN ResendCommand(command, device)
            ELSE AfterMatch(command, FALSE, <<new_data>>, device)
      [] command.state = "WaitFirstByte" ->
            AfterMatch([command EXCEPT !.state = "WaitSecondByte", !.byte1 = new_data],
                       FALSE, <<>>, device)
      [] command.state = "WaitSecondByte" ->
            AfterMatch([command EXCEPT !.byte1 = new_data], TRUE, <<>>, device)

\* AckResponseWithReturnTwoBytes answering RESEND in every sub-state.
ReceiveAckResponseWithReturnTwoBytes_resend_anywhere(command, new_data, device) ==
    IF new_data = RESEND THEN ResendCommand(command, device)
    ELSE CASE command.state = "WaitAck" ->
                 IF new_data = ACK
                 THEN AfterMatch([command EXCEPT !.state = "WaitFirstByte"], FALSE, <<>>, device)
                 ELSE AfterMatch(command, FALSE, <<new_data>>, device)
           [] command.state = "WaitFirstByte" ->
                 AfterMatch([command EXCEPT !.state = "WaitSecondByte", !.byte1 = new_data],
                            FALSE, <<>>, device)
           [] command.state = "WaitSecondByte" ->
                 AfterMatch([command EXCEPT !.byte2 = new_data], TRUE, <<>>, device)

\* AckResponseWithReturnTwoBytes, lines 111-128.
ReceiveAckResponseWithReturnTwoBytes(command, new_data, device) ==
    CASE command.state = "WaitAck" ->
            IF new_data = ACK
            THEN AfterMatch([command EXCEPT !.state = "WaitFirstByte"], FALSE, <<>>, device)
            ELSE IF new_data = RESEND THEN ResendCommand(command, device)
            ELSE AfterMatch(command, FALSE, <<new_data>>, device)
      [] command.state = "WaitFirstByte" ->
            AfterMatch([command EXCEPT !.state = "WaitSecondByte", !.byte1 = new_data],
                       FALSE, <<>>, device)
      [] command.state = "WaitSecondByte" ->
            AfterMatch([command EXCEPT !.byte2 = new_data], TRUE, <<>>, device)

\* SendCommandAndData writing the payload whatever answers the command byte.
ReceiveSendCommandAndData_payload_early(command, new_data, device) ==
    CASE command.state = "WaitAck1" ->
            IF new_data = RESEND THEN ResendCommand(command, device)
            ELSE AfterMatch([command EXCEPT !.state = "WaitAck2"], FALSE, <<>>,
                            Append(device, command.data))
      [] command.state = "WaitAck2" ->
            IF new_data = ACK THEN AfterMatch(command, TRUE, <<>>, device)
            ELSE IF new_data = RESEND
            THEN AfterMatch(command, FALSE, <<>>, Append(device, command.data))
            ELSE AfterMatch(command, FALSE, <<new_data>>, device)

\* SendCommandAndData, lines 129-148.
ReceiveSendCommandAndData(command, new_data, device) ==
    CASE command.state = "WaitAck1" ->
            IF new_data = ACK
            THEN AfterMatch([command EXCEPT !.state = "WaitAck2"], FALSE, <<>>,
                            Append(device, command.data))
            ELSE IF new_data = RESEND THEN ResendCommand(command, device)
            ELSE AfterMatch(command, FALSE, <<new_data>>, device)
      [] command.state = "WaitAck2" ->
            IF new_data = ACK THEN AfterMatch(command, TRUE, <<>>, device)
            ELSE IF new_data = RESEND
            THEN AfterMatch(command, FALSE, <<>>, Append(device, command.data))
            ELSE AfterMatch(command, FALSE, <<new_data>>, device)

\* SendCommandAndDataSingleAck taking an ACK in WaitAck2 for a second ACK.
ReceiveSendCommandAndDataSingleAck_second_ack(command, new_data, device) ==
    CASE command.state = "WaitAck1" ->
            IF new_data = ACK
            THEN AfterMatch([command EXCEPT !.state = "WaitAck2"], FALSE, <<>>,
                            Append(device, command.data))
            ELSE IF new_data = RESEND THEN ResendCommand(command, device)
            ELSE AfterMatch(command, FALSE, <<new_data>>, device)
      [] command.state = "WaitAck2" ->
            IF new_data = RESEND
            THEN AfterMatch(command, FALSE, <<>>, Append(device, command.data))
            ELSE IF new_data = ACK THEN AfterMatch(command, TRUE, <<>>, device)
            ELSE AfterMatch(
                    [command EXCEPT !.scancode_received_after_this_command = new_data],
                    TRUE, <<>>, device)

\* SendCommandAndDataSingleAck, lines 149-167.
ReceiveSendCommandAndDataSingleAck(command, new_data, device) ==
    CASE command.state = "WaitAck1" ->
            IF new_data = ACK
            THEN AfterMatch([command EXCEPT !.state = "WaitAck2"], FALSE, <<>>,
                            Append(device, command.data))
            ELSE IF new_data = RESEND THEN ResendCommand(command, device)
            ELSE AfterMatch(command, FALSE, <<new_data>>, device)
      [] command.state = "WaitAck2" ->
            IF new_data = RESEND
            THEN AfterMatch(command, FALSE, <<>>, Append(device, command.data))
            ELSE AfterMatch(
                    [command EXCEPT !.scancode_received_after_this_command = new_data],
                    TRUE, <<>>, device)

\* SendCommandAndDataAndReceiveResponse that repeats the payload when RESEND
\* arrives as the response.
ReceiveSendCommandAndDataAndReceiveResponse_resend_response(command, new_data, device) ==
    CASE command.state = "WaitAck1" ->
            IF new_data = ACK
            THEN AfterMatch([command EXCEPT !.state = "WaitAck2"], FALSE, <<>>,
                            Append(device, command.data))
            ELSE IF new_data = RESEND THEN ResendCommand(command, device)
            ELSE AfterMatch(command, FALSE, <<new_data>>, device)
      [] command.state = "WaitAck2" ->
            IF new_data = ACK
            THEN AfterMatch([command EXCEPT !.state = "WaitResponse"], FALSE, <<>>, device)
            ELSE IF new_data = RESEND
            THEN AfterMatch(command, FALSE, <<>>, Append(device, command.data))
            ELSE AfterMatch(command, FALSE, <<>>, device)
      [] command.state = "WaitResponse" ->
            IF new_data = RESEND
            THEN AfterMatch(command, FALSE, <<>>, Append(device, command.data))
            ELSE AfterMatch([command EXCEPT !.response = new_data], TRUE, <<>>, device)

\* SendCommandAndDataAndReceiveResponse, lines 168-189.
ReceiveSendCommandAndDataAndReceiveResponse(command, new_data, device) ==
    CASE command.state = "WaitAck1" ->
            IF new_data = ACK
            THEN AfterMatch([command EXCEPT !.state = "WaitAck2"], FALSE, <<>>,
                            Append(device, command.data))
            ELSE IF new_data = RESEND THEN ResendCommand(command, device)
            ELSE AfterMatch(command, FALSE, <<new_data>>, device)
      [] command.state = "WaitAck2" ->
            IF new_data = ACK
            THEN AfterMatch([command EXCEPT !.state = "WaitResponse"], FALSE, <<>>, device)
            ELSE IF new_data = RESEND
            THEN AfterMatch(command, FALSE, <<>>, Append(device, command.data))
            ELSE AfterMatch(command, FALSE, <<>>, device)
      [] command.state = "WaitResponse" ->
            AfterMatch([command EXCEPT !.response = new_data], TRUE, <<>>, device)

\* CommandChecker::receive_data, lines 85-206.
CommandChecker_receive_data(cur, new_data, device) ==
    IF cur = <<>>
    THEN [current_command |-> <<>>, device |-> device, result |-> <<>>]
    ELSE LET command == cur[1] IN
         CASE command.kind = "Echo" -> ReceiveEcho(command, new_data, device)
           [] command.kind = "AckResponse" -> ReceiveAckResponse(command, new_data, device)
           [] command.kind = "AckResponseWithReturnTwoBytes" ->
                ReceiveAckResponseWithReturnTwoBytes(command, new_data, device)
           [] command.kind = "SendCommandAndData" ->
                ReceiveSendCommandAndData(command, new_data, device)
           [] command.kind = "SendCommandAndDataSingleAck" ->
                ReceiveSendCommandAndDataSingleAck(command, new_data, device)
           [] command.kind = "SendCommandAndDataAndReceiveResponse" ->
                ReceiveSendCommandAndDataAndReceiveResponse(command, new_data, device)

(***************************************************************************)
(* ArrayDeque<T, Saturating> as CommandQueue uses it.                      *)
(***************************************************************************)
\* push_back without the capacity check: the deque grows.
push_back_growing(deque, element) ==
    [deque |-> Append(deque, element), result |-> [tag |-> "Ok"]]

\* push_back: a full deque hands the element back in a CapacityError.
push_back(deque, element) ==
    IF Len(deque) >= Capacity
    THEN [deque |-> deque, result |-> [tag |-> "Err", element |-> element]]
    ELSE [deque |-> Append(deque, element), result |-> [tag |-> "Ok"]]

\* pop_front: Option of the front element.
pop_front(deque) ==
    IF deque = <<>>
    THEN [deque |-> deque, result |-> <<>>]
    ELSE [deque |-> Tail(deque), result |-> <<Head(deque)>>]

(***************************************************************************)
(* CommandQueue, command_queue.rs 8-54.  A queue value is the record       *)
(* [commands, current_command].                                            *)
(***************************************************************************)
CommandQueue_new == [commands |-> <<>>, current_command |-> <<>>]

\* space_available that is off by one.
space_available_off_by_one(queue, count) ==
    (Capacity - Len(queue.commands)) + 1 >= count

space_available(queue, count) == (Capacity - Len(queue.commands)) >= count

empty(queue) == Len(queue.commands) = 0 /\ queue.current_command = <<>>

\* add that starts the pushed command without looking at the current command.
add_always_start(queue, command, device) ==
    LET pushed == push_back(queue.commands, command) IN
    LET popped == pop_front(pushed.deque) IN
    IF popped.result # <<>>
    THEN LET started == send_new_command(popped.result[1], device) IN
         [commands |-> popped.deque, current_command |-> started.current_command,
          device |-> started.device, result |-> pushed.result]
    ELSE [commands |-> popped.deque, current_command |-> queue.current_command,
          device |-> device, result |-> pushed.result]

\* add that drops the result of push_back and returns Ok(()).
add_swallow_error(queue, command, device) ==
    LET pushed == push_back(queue.commands, command) IN
    IF queue.current_command = <<>>
    THEN LET popped == pop_front(pushed.deque) IN
         IF popped.result # <<>>
         THEN LET started == send_new_command(popped.result[1], device) IN
              [commands |-> popped.deque, current_command |-> started.current_command,
               device |-> started.device, result |-> [tag |-> "Ok"]]
         ELSE [commands |-> popped.deque, current_command |-> queue.current_command,
               device |-> device, result |-> [tag |-> "Ok"]]
    ELSE [commands |-> pushed.deque, current_command |-> queue.current_command,
          device |-> device, result |-> [tag |-> "Ok"]]

\* add that leaves the pushed command in the FIFO.
add_never_start(queue, command, device) ==
    LET pushed == push_back(queue.commands, command) IN
    [commands |-> pushed.deque, current_command |-> queue.current_command,
     device |-> device, result |-> pushed.result]

add(queue, command, device) ==
    LET pushed == push_back(queue.commands, command) IN
    IF queue.current_command = <<>>
    THEN LET popped == pop_front(pushed.deque) IN
         IF popped.result # <<>>
         THEN LET started == send_new_command(popped.result[1], device) IN
              [commands |-> popped.deque, current_command |-> started.current_command,
               device |-> started.device, result |-> pushed.result]
         ELSE [commands |-> popped.deque, current_command |-> queue.current_command,
               device |-> device, result |-> pushed.result]
    ELSE [commands |-> pushed.deque, current_command |-> queue.current_command,
          device |-> device, result |-> pushed.result]

\* receive_data that starts the next command on every status, finished or not.
CommandQueue_receive_data_any_status(queue, new_data, device) ==
    LET checked == CommandChecker_receive_data(queue.current_command, new_data, device) IN
    IF checked.result # <<>>
    THEN LET popped == pop_front(queue.commands) IN
         IF popped.result # <<>>
         THEN LET started == send_new_command(popped.result[1], checked.device) IN
              [commands |-> popped.deque, current_command |-> started.current_command,
               device |-> started.device, result |-> checked.result]
         ELSE [commands |-> popped.deque, current_command |-> checked.current_command,
               device |-> checked.device, result |-> checked.result]
    ELSE [commands |-> queue.commands, current_command |-> checked.current_command,
          device |-> checked.device, result |-> checked.result]

\* receive_data that does not start the next command when one finishes.
CommandQueue_receive_data_no_start(queue, new_data, device) ==
    LET checked == CommandChecker_receive_data(queue.current_command, new_data, device) IN
    [commands |-> queue.commands, current_command |-> checked.current_command,
     device |-> checked.device, result |-> checked.result]

CommandQueue_receive_data(queue, new_data, device) ==
    LET checked == CommandChecker_receive_data(queue.current_command, new_data, device) IN
    IF checked.result # <<>> /\ checked.result[1].tag = "CommandFinished"
    THEN LET popped == pop_front(queue.commands) IN
         IF popped.result # <<>>
         THEN LET started == send_new_command(popped.result[1], checked.device) IN
              [commands |-> popped.deque, current_command |-> started.current_command,
               device |-> started.device, result |-> checked.result]
         ELSE [commands |-> popped.deque, current_command |-> checked.current_command,
               device |-> checked.device, result |-> checked.result]
    ELSE [commands |-> queue.commands, current_command |-> checked.current_command,
          device |-> checked.device, result |-> checked.result]

\* The queue of the current state.
Queue == [commands |-> commands, current_command |-> current_command]

(***************************************************************************)
(* ScancodeDecoder, keyboard/driver.rs 276-324.  The decoding tables are   *)
(* those of the pc_keyboard crate: the model keeps which table is selected *)
(* and whether a multi-byte scancode is in progress, and takes the outcome *)
(* of one add_byte call as an input.                                       *)
(***************************************************************************)
DecodeOutcomes == {"None", "Key", "Error"}

\* Defaults to scancode set 2.
ScancodeDecoder_new == [set |-> "Set2", partial |-> FALSE]

\* Replaces the decoder by a new one for the given set.
change_decoder(setting) == [set |-> setting, partial |-> FALSE]

\* decode: Ok(None) while a scancode is incomplete, Ok(Some(KeyEvent)) or Err(Error).
decode(decoder, scancode, outcome) ==
    CASE outcome = "None" ->
            [decoder |-> [decoder EXCEPT !.partial = TRUE],
             result |-> [tag |-> "Ok", value |-> <<>>]]
      [] outcome = "Key" ->
            [decoder |-> [decoder EXCEPT !.partial = FALSE],
             result |-> [tag |-> "Ok", value |-> <<[event |-> "KeyEvent"]>>]]
      [] outcome = "Error" ->
            [decoder |-> [decoder EXCEPT !.partial = FALSE],
             result |-> [tag |-> "Err", error |-> [kind |-> "Error"]]]

(***************************************************************************)
(* Keyboard, keyboard/driver.rs 19-274.  A keyboard value is the record    *)
(* [commands, current_command, state, current_decoder]; the first two are  *)
(* the fields of its CommandQueue.                                         *)
(***************************************************************************)
NotEnoughSpaceInTheCommandQueue ==
    [tag |-> "Err", error |-> "NotEnoughSpaceInTheCommandQueue"]

\* The outcome of a call that panicked (a failed unwrap).
Panic == [tag |-> "Panic"]

\* What a method returns: the keyboard after the call, the bytes sent and the result.
MethodResult(keyboard, queue, new_state, device, result) ==
    [commands |-> queue.commands, current_command |-> queue.current_command,
     state |-> new_state, current_decoder |-> keyboard.current_decoder,
     device |-> device, result |-> result]

\* self.commands.add(command, device).unwrap() followed by Ok(()), after
\* self.state has been set to new_state.
AddUnwrap(keyboard, command, new_state, device) ==
    LET r == add(keyboard, command, device) IN
    MethodResult(keyboard, r, new_state, r.device,
                 IF r.result.tag = "Err" THEN Panic ELSE [tag |-> "Ok"])

\* The Err(NotEnoughSpaceInTheCommandQueue) branch of a method.
NoSpace(keyboard, device) ==
    MethodResult(keyboard, keyboard, keyboard.state, device, NotEnoughSpaceInTheCommandQueue)

set_defaults_and_disable(keyboard, device) ==
    IF space_available(keyboard, 1)
    THEN AddUnwrap(keyboard, default_disable, "ScancodesDisabled", device)
    ELSE NoSpace(keyboard, device)

set_defaults_and_enable(keyboard, device) ==
    IF space_available(keyboard, 1)
    THEN AddUnwrap(keyboard, set_default, "ScancodesEnabled", device)
    ELSE NoSpace(keyboard, device)

Keyboard_enable(keyboard, device) ==
    IF space_available(keyboard, 1)
    THEN AddUnwrap(keyboard, enable, "ScancodesEnabled", device)
    ELSE NoSpace(keyboard, device)

Keyboard_set_status_indicators(keyboard, device, indicators) ==
    IF space_available(keyboard, 1)
    THEN AddUnwrap(keyboard, set_status_indicators(indicators), keyboard.state, device)
    ELSE NoSpace(keyboard, device)

Keyboard_scancode_set_3_set_all_keys(keyboard, device, set_all_keys) ==
    IF space_available(keyboard, 1)
    THEN AddUnwrap(keyboard, scancode_set_3_set_all_keys(set_all_keys), keyboard.state, device)
    ELSE NoSpace(keyboard, device)

Keyboard_scancode_set_3_set_key_type(keyboard, device, set_key_type, scancode) ==
    IF space_available(keyboard, 1)
    THEN AddUnwrap(keyboard, scancode_set_3_set_key_type(set_key_type, scancode),
                   keyboard.state, device)
    ELSE NoSpace(keyboard, device)

set_scancode_decoder(keyboard, setting) ==
    [keyboard EXCEPT !.current_decoder = change_decoder(setting)]

Keyboard_set_typematic_rate(keyboard, device, delay_and_rate) ==
    IF space_available(keyboard, 1)
    THEN AddUnwrap(keyboard, set_typematic_rate(delay_and_rate), keyboard.state, device)
    ELSE NoSpace(keyboard, device)

Keyboard_read_id(keyboard, device) ==
    IF space_available(keyboard, 1)
    THEN AddUnwrap(keyboard, read_id, keyboard.state, device)
    ELSE NoSpace(keyboard, device)

Keyboard_echo(keyboard, device) ==
    IF space_available(keyboard, 1)
    THEN AddUnwrap(keyboard, echo, keyboard.state, device)
    ELSE NoSpace(keyboard, device)

\* Two adds, each unwrapped: a failed first unwrap panics before the second add.
set_alternate_scancode_set(keyboard, device, scancode_setting) ==
    IF space_available(keyboard, 2)
    THEN LET first == AddUnwrap(keyboard, set_alternate_scancodes(scancode_setting),
                                keyboard.state, device) IN
         IF first.result = Panic
         THEN first
         ELSE AddUnwrap([keyboard EXCEPT !.commands = first.commands,
                                         !.current_command = first.current_command],
                        get_current_scancode_set, keyboard.state, first.device)
    ELSE NoSpace(keyboard, device)

\* What receive_data returns: the keyboard after the call, the bytes sent, the
\* bytes given to the scancode decoder and the result.
ReceiveResult(keyboard, device, decoded_bytes, result) ==
    [commands |-> keyboard.commands, current_command |-> keyboard.current_command,
     state |-> keyboard.state, current_decoder |-> keyboard.current_decoder,
     device |-> device, decoded |-> decoded_bytes, result |-> result]

\* self.scancode_reader.decode(data).map(|o| o.map(KeyboardEvent::Key))
\*     .map_err(KeyboardError::ScancodeParsingError)
DecodeKey(keyboard, data, device, outcome) ==
    LET d == decode(keyboard.current_decoder, data, outcome) IN
    ReceiveResult([keyboard EXCEPT !.current_decoder = d.decoder], device, <<data>>,
        IF d.result.tag = "Ok"
        THEN [tag |-> "Ok",
              value |-> IF d.result.value = <<>> THEN <<>> ELSE <<[event |-> "Key"]>>]
        ELSE [tag |-> "Err", error |-> [kind |-> "ScancodeParsingError"]])

\* The answer to get_current_scancode_set with a decoder change for set 3.
ScancodeSetResponse_set_3_decoder(keyboard, response, device) ==
    CASE response \in {1, 2, 3} ->
            ReceiveResult(set_scancode_decoder(keyboard,
                              <<"Set1", "Set2", "Set3">>[response]), device, <<>>,
                [tag |-> "Ok", value |-> <<[event |-> "ScancodeSet", set |-> response]>>])
      [] OTHER ->
            ReceiveResult(keyboard, device, <<>>,
                [tag |-> "Err",
                 error |-> [kind |-> "UnknownScancodeSet", value |-> response]])

\* Lines 245-266: the answer to get_current_scancode_set.
ScancodeSetResponse(keyboard, response, device) ==
    CASE response = 1 ->
            ReceiveResult(set_scancode_decoder(keyboard, "Set1"), device, <<>>,
                [tag |-> "Ok", value |-> <<[event |-> "ScancodeSet", set |-> 1]>>])
      [] response = 2 ->
            ReceiveResult(set_scancode_decoder(keyboard, "Set2"), device, <<>>,
                [tag |-> "Ok", value |-> <<[event |-> "ScancodeSet", set |-> 2]>>])
      [] response = 3 ->
            ReceiveResult(keyboard, device, <<>>,
                [tag |-> "Ok", value |-> <<[event |-> "ScancodeSet", set |-> 3]>>])
      [] OTHER ->
            ReceiveResult(keyboard, device, <<>>,
                [tag |-> "Err",
                 error |-> [kind |-> "UnknownScancodeSet", value |-> response]])

\* Lines 229-271: the match on the status of the command queue.
MatchStatus(keyboard, status, device, outcome) ==
    IF status = <<>>
    THEN ReceiveResult(keyboard, device, <<>>, [tag |-> "Ok", value |-> <<>>])
    ELSE LET s == status[1] IN
         CASE s.tag = "CommandFinished"
                /\ s.command.kind = "SendCommandAndDataSingleAck" ->
                DecodeKey(keyboard, s.command.scancode_received_after_this_command,
                          device, outcome)
           [] s.tag = "UnexpectedData" ->
                DecodeKey(keyboard, s.data, device, outcome)
           [] s.tag = "CommandFinished"
                /\ s.command.kind = "AckResponseWithReturnTwoBytes"
                /\ s.command.command = READ_ID ->
                ReceiveResult(keyboard, device, <<>>,
                    [tag |-> "Ok",
                     value |-> <<[event |-> "ID", byte1 |-> s.command.byte1,
                                  byte2 |-> s.command.byte2]>>])
           [] s.tag = "CommandFinished"
                /\ s.command.kind = "SendCommandAndDataAndReceiveResponse"
                /\ s.command.command = SELECT_ALTERNATE_SCANCODES ->
                ScancodeSetResponse(keyboard, s.command.response, device)
           [] s.tag = "CommandFinished" /\ s.command.kind = "Echo" ->
                ReceiveResult(keyboard, device, <<>>,
                    [tag |-> "Ok", value |-> <<[event |-> "Echo"]>>])
           [] OTHER ->
                ReceiveResult(keyboard, device, <<>>, [tag |-> "Ok", value |-> <<>>])

\* Lines 205-217: the codes receive_data intercepts before anything else.
IsSentinel(new_data) ==
    new_data \in {KEY_DETECTION_OVERRUN_SCANCODE_SET_1,
                  KEY_DETECTION_OVERRUN_SCANCODE_SET_2_AND_3,
                  BAT_FAILURE_CODE, BAT_COMPLETION_CODE}

InterceptSentinel(keyboard, new_data, device) ==
    CASE new_data = KEY_DETECTION_OVERRUN_SCANCODE_SET_1
           \/ new_data = KEY_DETECTION_OVERRUN_SCANCODE_SET_2_AND_3 ->
            ReceiveResult(keyboard, device, <<>>,
                [tag |-> "Err", error |-> [kind |-> "KeyDetectionError"]])
      [] new_data = BAT_FAILURE_CODE ->
            ReceiveResult(keyboard, device, <<>>,
                [tag |-> "Err", error |-> [kind |-> "BATCompletionFailure"]])
      [] new_data = BAT_COMPLETION_CODE ->
            ReceiveResult(
                set_scancode_decoder([keyboard EXCEPT !.state = "ScancodesEnabled"], "Set2"),
                device, <<>>, [tag |-> "Ok", value |-> <<[event |-> "BATCompleted"]>>])

\* receive_data that gives RESEND to the decoder when the queue is idle.
RouteData_resend_decoded(keyboard, new_data, device, outcome) ==
    IF empty(keyboard)
    THEN DecodeKey(keyboard, new_data, device, outcome)
    ELSE LET r == CommandQueue_receive_data(keyboard, new_data, device) IN
         MatchStatus([keyboard EXCEPT !.commands = r.commands,
                                      !.current_command = r.current_command],
                     r.result, r.device, outcome)

\* Lines 219-272: an idle queue swallows RESEND and decodes everything else, an
\* active queue gets the byte.
RouteData(keyboard, new_data, device, outcome) ==
    IF empty(keyboard)
    THEN IF new_data = RESEND
         THEN ReceiveResult(keyboard, device, <<>>, [tag |-> "Ok", value |-> <<>>])
         ELSE DecodeKey(keyboard, new_data, device, outcome)
    ELSE LET r == CommandQueue_receive_data(keyboard, new_data, device) IN
         MatchStatus([keyboard EXCEPT !.commands = r.commands,
                                      !.current_command = r.current_command],
                     r.result, r.device, outcome)

\* receive_data that looks at the BAT completion code only when the queue is idle.
Keyboard_receive_data_queue_first(keyboard, new_data, device, outcome) ==
    IF IsSentinel(new_data) /\ (new_data # BAT_COMPLETION_CODE \/ empty(keyboard))
    THEN InterceptSentinel(keyboard, new_data, device)
    ELSE RouteData(keyboard, new_data, device, outcome)

\* receive_data that hands the error codes to a busy command queue.
Keyboard_receive_data_idle_sentinels(keyboard, new_data, device, outcome) ==
    IF IsSentinel(new_data) /\ (new_data = BAT_COMPLETION_CODE \/ empty(keyboard))
    THEN InterceptSentinel(keyboard, new_data, device)
    ELSE RouteData(keyboard, new_data, device, outcome)

\* Keyboard::receive_data, lines 200-273.  outcome is what the scancode decoder
\* makes of the byte, if the byte reaches it.
Keyboard_receive_data(keyboard, new_data, device, outcome) ==
    IF IsSentinel(new_data)
    THEN InterceptSentinel(keyboard, new_data, device)
    ELSE RouteData(keyboard, new_data, device, outcome)

\* Keyboard::new, lines 32-42: an empty queue, then set_defaults_and_disable(device)?.
Keyboard_new(device) ==
    set_defaults_and_disable(
        [commands |-> CommandQueue_new.commands,
         current_command |-> CommandQueue_new.current_command,
         state |-> "ScancodesDisabled",
         current_decoder |-> ScancodeDecoder_new], device)

(***************************************************************************)
(* Bounds and inputs of the controller model.                              *)
(***************************************************************************)
\* Number of status reads the controller needs at most to empty its input buffer.
MaxBusy == 1

\* Bytes read from the status register.
StatusBytes == 0..255
\* Command bytes found at power-on: translation and both interrupts on; keyboard
\* disabled with bit 3 set.
PowerOnCommandBytes == {71, 28}
\* Bytes a device sends.
DeviceBytes == {28}
\* A byte is, or is not, in the output buffer at power-on.
PowerOnOutputs == {<<>>, <<[data |-> 28, auxiliary |-> FALSE]>>}
\* Results of the interface tests and of the self-test.
TestResults == {0, 2, 5}
SelfTestResults == {85, 252}
\* The command byte a self-test that resets the controller leaves behind: both
\* interfaces and both interrupts enabled.
ResetCommandBytes == {3}
\* Bytes sent to a device.
DeviceCommands == {244}

(***************************************************************************)
(* Controller wire constants, controller/raw.rs.                           *)
(***************************************************************************)
AUXILIARY_DEVICE_OUTPUT_BUFFER_FULL == 32
INPUT_BUFFER_FULL == 2
OUTPUT_BUFFER_FULL == 1
\* StatusRegister::all(): every bit of the status register is a flag.
StatusRegister_all == 255

DISABLE_AUXILIARY_DEVICE_INTERFACE == 167
ENABLE_AUXILIARY_DEVICE_INTERFACE == 168
DISABLE_KEYBOARD_INTERFACE == 173
ENABLE_KEYBOARD_INTERFACE == 174

READ_CONTROLLER_COMMAND_BYTE == 32
READ_RAM_START == 33
READ_RAM_END == 63
AUXILIARY_DEVICE_INTERFACE_TEST == 169
SELF_TEST == 170
KEYBOARD_INTERFACE_TEST == 171

WRITE_CONTROLLER_COMMAND_BYTE == 96
WRITE_RAM_START == 97
WRITE_RAM_END == 127
WRITE_TO_AUXILIARY_DEVICE == 212

CONTROLLER_RAM_SIZE == READ_RAM_END - READ_RAM_START + 1

KEYBOARD_TRANSLATE_MODE == 64
DISABLE_AUXILIARY_DEVICE == 32
DISABLE_KEYBOARD == 16
SYSTEM_FLAG == 4
ENABLE_AUXILIARY_INTERRUPT == 2
ENABLE_KEYBOARD_INTERRUPT == 1
\* ControllerCommandByte::all(): bits 7 and 3 are no flags.
ControllerCommandByte_all == 119

(***************************************************************************)
(* bitflags over u8.                                                       *)
(***************************************************************************)
Bit(byte, k) == (byte \div (2 ^ k)) % 2

\* The bitwise and of two values of four bits.
NibbleAnd ==
    [a \in 0..15 |-> [b \in 0..15 |->
        LET w(k) == (2 ^ k) * Bit(a, k) * Bit(b, k)
        IN  w(0) + w(1) + w(2) + w(3)]]

BitAnd(a, b) == 16 * NibbleAnd[a \div 16][b \div 16] + NibbleAnd[a % 16][b % 16]

BitOr(a, b) == a + b - BitAnd(a, b)

\* contains that is true as soon as one of the flags is set.
contains_any(bits, other) == BitAnd(bits, other) # 0

\* contains: all flags of other are set in bits.
contains(bits, other) == BitAnd(bits, other) = other

from_bits_truncate(all, raw) == BitAnd(raw, all)

\* set(flag, value): insert or remove the flag.
set(bits, flag, value) ==
    IF value THEN BitOr(bits, flag) ELSE BitAnd(bits, 255 - flag)

(***************************************************************************)
(* StatusInfo, controller/driver/status.rs (and controller/driver.rs       *)
(* lines 10-75).                                                           *)
(***************************************************************************)
\* ReadStatus::status, from the raw byte read on.
StatusInfo(raw) == [register |-> from_bits_truncate(StatusRegister_all, raw)]

\* data_availability that looks at the keyboard's flag first.
data_availability_keyboard_first(self) ==
    IF contains(self.register, OUTPUT_BUFFER_FULL)
    THEN <<"KeyboardOrCommandController">>
    ELSE IF contains(self.register,
                     BitOr(AUXILIARY_DEVICE_OUTPUT_BUFFER_FULL, OUTPUT_BUFFER_FULL))
    THEN <<"AuxiliaryDevice">>
    ELSE <<>>

data_availability(self) ==
    IF contains(self.register,
                BitOr(AUXILIARY_DEVICE_OUTPUT_BUFFER_FULL, OUTPUT_BUFFER_FULL))
    THEN <<"AuxiliaryDevice">>
    ELSE IF contains(self.register, OUTPUT_BUFFER_FULL)
    THEN <<"KeyboardOrCommandController">>
    ELSE <<>>

input_buffer_full(self) == contains(self.register, INPUT_BUFFER_FULL)

\* Arrays written by write_ram.
RamImages == {[i \in 1..CONTROLLER_RAM_SIZE |-> i], [i \in 1..CONTROLLER_RAM_SIZE |-> 255 - i]}

(***************************************************************************)
(* The controller behind the ports (the PortIO implementation of           *)
(* controller/io.rs): its command byte, its output buffer with the owner   *)
(* of the byte in it, its input buffer flag, the meaning of the next byte  *)
(* written to the data port and its RAM.  The commands DISABLE_* and       *)
(* ENABLE_* set and clear the DISABLE_* flags of the command byte.         *)
(***************************************************************************)
Controller(command_byte, output) ==
    [command_byte |-> command_byte, output |-> output, input_buffer_full |-> FALSE,
     expects |-> [target |-> "keyboard", index |-> 0],
     ram |-> [i \in 1..CONTROLLER_RAM_SIZE |-> 0]]

\* The keyboard session is used without a controller.
NoController ==
    /\ handle = [kind |-> "None"]
    /\ port_io = Controller(0, <<>>)
    /\ io = <<>>
    /\ pc = "idle"

\* The byte read from the status register.
StatusByte(controller) ==
    (IF controller.output # <<>> THEN OUTPUT_BUFFER_FULL ELSE 0)
    + (IF controller.output # <<>> /\ controller.output[1].auxiliary
       THEN AUXILIARY_DEVICE_OUTPUT_BUFFER_FULL ELSE 0)
    + (IF controller.input_buffer_full THEN INPUT_BUFFER_FULL ELSE 0)

\* The controller puts a byte of its own into the output buffer.
Respond(controller, data) ==
    [controller EXCEPT !.output = <<[data |-> data, auxiliary |-> FALSE]>>]

\* A byte is written to the command register.
WriteCommand(controller, command, answer) ==
    LET c == [controller EXCEPT !.input_buffer_full = TRUE,
                                !.expects = [target |-> "keyboard", index |-> 0]]
    IN  CASE command = DISABLE_AUXILIARY_DEVICE_INTERFACE ->
                [c EXCEPT !.command_byte = set(@, DISABLE_AUXILIARY_DEVICE, TRUE)]
          [] command = ENABLE_AUXILIARY_DEVICE_INTERFACE ->
                [c EXCEPT !.command_byte = set(@, DISABLE_AUXILIARY_DEVICE, FALSE)]
          [] command = DISABLE_KEYBOARD_INTERFACE ->
                [c EXCEPT !.command_byte = set(@, DISABLE_KEYBOARD, TRUE)]
          [] command = ENABLE_KEYBOARD_INTERFACE ->
                [c EXCEPT !.command_byte = set(@, DISABLE_KEYBOARD, FALSE)]
          [] command = READ_CONTROLLER_COMMAND_BYTE -> Respond(c, c.command_byte)
          [] command \in READ_RAM_START..READ_RAM_END ->
                Respond(c, c.ram[command - READ_RAM_START + 1])
          [] command = WRITE_CONTROLLER_COMMAND_BYTE ->
                [c EXCEPT !.expects = [target |-> "command_byte", index |-> 0]]
          [] command \in WRITE_RAM_START..WRITE_RAM_END ->
                [c EXCEPT !.expects = [target |-> "ram",
                                       index |-> command - WRITE_RAM_START + 1]]
          [] command = WRITE_TO_AUXILIARY_DEVICE ->
                [c EXCEPT !.expects = [target |-> "auxiliary", index |-> 0]]
          [] command = KEYBOARD_INTERFACE_TEST -> Respond(c, answer.keyboard_test)
          [] command = AUXILIARY_DEVICE_INTERFACE_TEST -> Respond(c, answer.auxiliary_test)
          [] command = SELF_TEST ->
                Respond([c EXCEPT !.command_byte =
                                     IF answer.reset = <<>> THEN @ ELSE answer.reset[1]],
                        answer.self_test)
          [] OTHER -> c

\* A byte is written to the data port: it goes where the last command said,
\* or to the keyboard.
WriteData(controller, data) ==
    LET c == [controller EXCEPT !.input_buffer_full = TRUE,
                                !.expects = [target |-> "keyboard", index |-> 0]]
    IN  CASE controller.expects.target = "command_byte" ->
                [c EXCEPT !.command_byte = data]
          [] controller.expects.target = "ram" ->
                [c EXCEPT !.ram[controller.expects.index] = data]
          [] OTHER -> c

(***************************************************************************)
(* Port accesses.  A driver function works on the controller and on the    *)
(* accesses made so far; hang says that it spins forever.                  *)
(***************************************************************************)
Read(port, data) == [access |-> "read", port |-> port, data |-> data]

Write(port, data) == [access |-> "write", port |-> port, data |-> data]

Ports(controller) == [port_io |-> controller, io |-> <<>>, hang |-> FALSE, value |-> <<>>]

\* let v = e; F(v): e is evaluated once, before F.
Then(e, F(_)) == CHOOSE y \in {F(v) : v \in {e}} : TRUE

\* self.port_io_mut().write(T::COMMAND_REGISTER, command)
write_command_register(p, command, answer) ==
    [p EXCEPT !.port_io = WriteCommand(@, command, answer),
              !.io = Append(@, Write("COMMAND_REGISTER", command))]

\* self.port_io_mut().write(T::DATA_PORT, data)
write_data_port(p, data) ==
    [p EXCEPT !.port_io = WriteData(@, data),
              !.io = Append(@, Write("DATA_PORT", data))]

\* self.port_io_mut().read(T::DATA_PORT): the byte of the output buffer, which
\* is empty afterwards.
read_data_port(p) ==
    Then(p, LAMBDA q :
        [q EXCEPT !.port_io.output = <<>>,
                  !.io = Append(@, Read("DATA_PORT", q.port_io.output[1].data))])

\* ReadStatus::status: one read of the status register.
status(p) ==
    Then(p, LAMBDA q :
        [q EXCEPT !.io = Append(@, Read("STATUS_REGISTER", StatusByte(q.port_io)))])

\* The byte of the last access.
Last(p) == p.io[Len(p.io)].data

(***************************************************************************)
(* The free functions of controller/driver.rs, lines 307-338.  delay is    *)
(* the number of status reads the controller needs to empty its input      *)
(* buffer, answer what it answers to the commands.                         *)
(***************************************************************************)
\* while controller.status().input_buffer_full() {}: a full input buffer is
\* seen full by delay reads and empty by the next one.  The loop ends with the
\* first read that input_buffer_full() finds clear.
wait_input_buffer_empty(p, delay) ==
    Then(p, LAMBDA q :
        LET n == IF q.port_io.input_buffer_full THEN delay ELSE 0
            full == StatusByte(q.port_io)
            emptied == [q.port_io EXCEPT !.input_buffer_full = FALSE]
        IN  IF n > 0 /\ ~input_buffer_full(StatusInfo(full))
            THEN [q EXCEPT !.io = Append(@, Read("STATUS_REGISTER", full))]
            ELSE IF input_buffer_full(StatusInfo(StatusByte(emptied)))
            THEN [q EXCEPT !.hang = TRUE]
            ELSE [q EXCEPT !.port_io = emptied,
                           !.io = @ \o [i \in 1..n |-> Read("STATUS_REGISTER", full)]
                                   \o <<Read("STATUS_REGISTER", StatusByte(emptied))>>])

\* Lines 307-310.
send_controller_command(p, command, delay, answer) ==
    write_command_register(wait_input_buffer_empty(p, delay), command, answer)

\* Lines 312-316.
send_controller_command_and_write_data(p, command, data, delay, answer) ==
    write_data_port(
        wait_input_buffer_empty(send_controller_command(p, command, delay, answer), delay),
        data)

\* Lines 318-320.
write_controller_command_byte(p, data, delay, answer) ==
    send_controller_command_and_write_data(p, WRITE_CONTROLLER_COMMAND_BYTE, data,
                                           delay, answer)

\* discard_stale_data leaving the byte where it is.
discard_stale_data_never(p) == status(p)

\* Lines 327-329 and 365-367: a byte that is already there is read and dropped.
discard_stale_data(p) ==
    Then(status(p), LAMBDA s :
        IF data_availability(StatusInfo(Last(s))) # <<>> THEN read_data_port(s) ELSE s)

\* Lines 333-337 and 380-384: spin until the status names the keyboard or the
\* controller as the owner of a byte, then read it.  The status does not
\* change while the driver spins.
poll_keyboard_or_controller_command_data(p) ==
    Then(status(p), LAMBDA s :
        IF data_availability(StatusInfo(Last(s))) = <<"KeyboardOrCommandController">>
        THEN read_data_port(s)
        ELSE [s EXCEPT !.hang = TRUE])

\* Lines 322-338; the byte returned is the last one read.
send_controller_command_and_wait_response(p, command, delay, answer) ==
    poll_keyboard_or_controller_command_data(
        send_controller_command(discard_stale_data(p), command, delay, answer))

(***************************************************************************)
(* The traits of controller/driver.rs, lines 394-499.                      *)
(***************************************************************************)
\* ReadRAM::controller_command_byte, lines 395-398.
controller_command_byte(p, delay, answer) ==
    Then(send_controller_command_and_wait_response(
             p, READ_CONTROLLER_COMMAND_BYTE, delay, answer),
         LAMBDA r :
            [r EXCEPT !.value = IF r.hang THEN 0
                                ELSE from_bits_truncate(ControllerCommandByte_all, Last(r))])

\* ReadRAM::ram, lines 400-405: the bytes i, i + 1, ... of the array.
RECURSIVE ram_from(_, _, _, _)
ram_from(p, i, delay, answer) ==
    IF i >= CONTROLLER_RAM_SIZE
    THEN p
    ELSE Then(send_controller_command_and_wait_response(
                  p, READ_RAM_START + i, delay, answer),
              LAMBDA r :
                 IF r.hang THEN r
                 ELSE ram_from([r EXCEPT !.value = Append(@, Last(r))],
                               i + 1, delay, answer))

ram(p, delay, answer) == ram_from([p EXCEPT !.value = <<>>], 0, delay, answer)

\* WriteRAM::write_ram, lines 409-413.
RECURSIVE write_ram_from(_, _, _, _, _)
write_ram_from(p, data, i, delay, answer) ==
    IF i >= CONTROLLER_RAM_SIZE
    THEN p
    ELSE Then(send_controller_command_and_write_data(
                  p, WRITE_RAM_START + i, data[i + 1], delay, answer),
              LAMBDA r : write_ram_from(r, data, i + 1, delay, answer))

write_ram(p, data, delay, answer) == write_ram_from(p, data, 0, delay, answer)

\* DangerousDeviceCommands, lines 419-437.
dangerous_command(p, command, delay, answer) ==
    wait_input_buffer_empty(send_controller_command(p, command, delay, answer), delay)

dangerous_disable_auxiliary_device_interface(p, delay, answer) ==
    dangerous_command(p, DISABLE_AUXILIARY_DEVICE_INTERFACE, delay, answer)

dangerous_enable_auxiliary_device(p, delay, answer) ==
    dangerous_command(p, ENABLE_AUXILIARY_DEVICE_INTERFACE, delay, answer)

dangerous_disable_keyboard_interface(p, delay, answer) ==
    dangerous_command(p, DISABLE_KEYBOARD_INTERFACE, delay, answer)

dangerous_enable_keyboard_interface(p, delay, answer) ==
    dangerous_command(p, ENABLE_KEYBOARD_INTERFACE, delay, answer)

\* from_test_result with the two clock line errors exchanged.
from_test_result_clock_lines_exchanged(value) ==
    CASE value = 0 -> [tag |-> "Ok"]
      [] value = 1 -> [tag |-> "Err", error |-> [kind |-> "ClockLineHigh"]]
      [] value = 2 -> [tag |-> "Err", error |-> [kind |-> "ClockLineLow"]]
      [] value = 3 -> [tag |-> "Err", error |-> [kind |-> "DataLineLow"]]
      [] value = 4 -> [tag |-> "Err", error |-> [kind |-> "DataLineHigh"]]
      [] OTHER -> [tag |-> "Err", error |-> [kind |-> "UnknownValue", value |-> value]]

\* DeviceInterfaceError::from_test_result, lines 285-297.
from_test_result(value) ==
    CASE value = 0 -> [tag |-> "Ok"]
      [] value = 1 -> [tag |-> "Err", error |-> [kind |-> "ClockLineLow"]]
      [] value = 2 -> [tag |-> "Err", error |-> [kind |-> "ClockLineHigh"]]
      [] value = 3 -> [tag |-> "Err", error |-> [kind |-> "DataLineLow"]]
      [] value = 4 -> [tag |-> "Err", error |-> [kind |-> "DataLineHigh"]]
      [] OTHER -> [tag |-> "Err", error |-> [kind |-> "UnknownValue", value |-> value]]

\* Testing, lines 441-458.
interface_test(p, command, delay, answer) ==
    Then(send_controller_command_and_wait_response(p, command, delay, answer),
         LAMBDA r :
            [r EXCEPT !.value = IF r.hang THEN [tag |-> "Hang"]
                                ELSE from_test_result(Last(r))])

auxiliary_device_interface_test(p, delay, answer) ==
    interface_test(p, AUXILIARY_DEVICE_INTERFACE_TEST, delay, answer)

keyboard_interface_test(p, delay, answer) ==
    interface_test(p, KEYBOARD_INTERFACE_TEST, delay, answer)

self_test(p, delay, answer) ==
    Then(send_controller_command_and_wait_response(p, SELF_TEST, delay, answer),
         LAMBDA r :
            [r EXCEPT !.value = IF r.hang THEN [tag |-> "Hang"]
                                ELSE IF Last(r) = 85 THEN [tag |-> "Ok"]
                                ELSE [tag |-> "Err", error |-> Last(r)]])

\* AuxiliaryDeviceIO, lines 462-472.
send_to_auxiliary_device(p, data, delay, answer) ==
    send_controller_command_and_write_data(p, WRITE_TO_AUXILIARY_DEVICE, data, delay, answer)

\* The byte read from the data port, as the value of the function.
read_byte(p, tag) ==
    Then(read_data_port(p), LAMBDA r : [r EXCEPT !.value = [tag |-> tag, data |-> Last(r)]])

poll_device_data(p, owner) ==
    Then(status(p), LAMBDA s :
        IF data_availability(StatusInfo(Last(s))) = <<owner>>
        THEN read_byte(s, "Some")
        ELSE [s EXCEPT !.value = [tag |-> "None"]])

poll_auxiliary_device_data(p) == poll_device_data(p, "AuxiliaryDevice")

\* send_to_keyboard sending the byte the way of the auxiliary device.
send_to_keyboard_as_auxiliary(p, data) ==
    send_controller_command_and_write_data(
        p, WRITE_TO_AUXILIARY_DEVICE, data, 0,
        [keyboard_test |-> 0, auxiliary_test |-> 0, self_test |-> 85, reset |-> <<>>])

\* KeyboardIO, lines 476-486.
send_to_keyboard(p, data) == write_data_port(p, data)

poll_keyboard_data(p) == poll_device_data(p, "KeyboardOrCommandController")

\* KeyboardInterruptIO and AuxiliaryDeviceInterruptIO, lines 490-498.
interrupt_read_data_port(p) == read_byte(p, "Byte")

(***************************************************************************)
(* InitController, lines 88-119, and WaitInterrupt, lines 353-387.         *)
(***************************************************************************)
\* WaitInterrupt::send_controller_command, lines 364-372.
WaitInterrupt_send_controller_command(p, command, delay, answer) ==
    send_controller_command(discard_stale_data(p), command, delay, answer)

\* InitController::start_init, lines 95-108.
start_init(controller, delay, answer) ==
    WaitInterrupt_send_controller_command(
        dangerous_disable_keyboard_interface(
            dangerous_disable_auxiliary_device_interface(Ports(controller), delay, answer),
            delay, answer),
        READ_CONTROLLER_COMMAND_BYTE, delay, answer)

\* convert_function writing the command byte back as read.
convert_function_keep_interrupts(p, raw_command_byte, delay, answer) ==
    write_controller_command_byte(
        p, from_bits_truncate(ControllerCommandByte_all, raw_command_byte), delay, answer)

\* convert_function clearing the translate mode as well.
convert_function_clear_translate_mode(p, raw_command_byte, delay, answer) ==
    write_controller_command_byte(
        p,
        set(set(set(from_bits_truncate(ControllerCommandByte_all, raw_command_byte),
                    ENABLE_AUXILIARY_INTERRUPT, FALSE),
                ENABLE_KEYBOARD_INTERRUPT, FALSE),
            KEYBOARD_TRANSLATE_MODE, FALSE),
        delay, answer)

\* InitController::convert_function, lines 110-118.
convert_function(p, raw_command_byte, delay, answer) ==
    write_controller_command_byte(
        p,
        set(set(from_bits_truncate(ControllerCommandByte_all, raw_command_byte),
                ENABLE_AUXILIARY_INTERRUPT, FALSE),
            ENABLE_KEYBOARD_INTERRUPT, FALSE),
        delay, answer)

\* WaitInterrupt::interrupt_received, lines 374-377.
interrupt_received(p, delay, answer) ==
    Then(read_data_port(p), LAMBDA r : convert_function(r, Last(r), delay, answer))

\* WaitInterrupt::poll_keyboard_or_controller_command_data, lines 379-386.
poll_data(p, delay, answer) ==
    Then(poll_keyboard_or_controller_command_data(p), LAMBDA r :
        IF r.hang THEN r ELSE convert_function(r, Last(r), delay, answer))

(***************************************************************************)
(* DevicesDisabled, lines 133-217.                                         *)
(***************************************************************************)
DevicesDisabled == [kind |-> "DevicesDisabled"]

EnabledDevices(devices, interrupts) ==
    [kind |-> "EnabledDevices",
     keyboard |-> devices \in {"Keyboard", "KeyboardAndAuxiliaryDevice"},
     auxiliary |-> devices \in {"AuxiliaryDevice", "KeyboardAndAuxiliaryDevice"},
     interrupts |-> interrupts]

EnableDevice == {"Keyboard", "AuxiliaryDevice", "KeyboardAndAuxiliaryDevice"}

\* scancode_translation writing the translate mode flag alone.
scancode_translation_flag_alone(p, enabled, delay, answer) ==
    Then(controller_command_byte(p, delay, answer), LAMBDA r :
        IF r.hang THEN r
        ELSE write_controller_command_byte(
                 r, set(0, KEYBOARD_TRANSLATE_MODE, enabled), delay, answer))

\* Lines 136-140.
scancode_translation(p, enabled, delay, answer) ==
    Then(controller_command_byte(p, delay, answer), LAMBDA r :
        IF r.hang THEN r
        ELSE write_controller_command_byte(
                 r, set(r.value, KEYBOARD_TRANSLATE_MODE, enabled), delay, answer))

\* The result of both interface tests, lines 185-187.
InterfaceResult(keyboard_result, auxiliary_result) ==
    IF keyboard_result.tag = "Err"
    THEN [tag |-> "Err", error |-> [kind |-> "Keyboard", error |-> keyboard_result.error]]
    ELSE IF auxiliary_result.tag = "Err"
    THEN [tag |-> "Err",
          error |-> [kind |-> "AuxiliaryDevice", error |-> auxiliary_result.error]]
    ELSE [tag |-> "Ok"]

\* test_keyboard_and_auxiliary_device that stops at a failed keyboard test.
test_keyboard_and_auxiliary_device_short_circuit(p, delay, answer) ==
    Then(keyboard_interface_test(p, delay, answer), LAMBDA k :
        IF k.hang THEN k
        ELSE IF k.value.tag = "Err"
        THEN [k EXCEPT !.value = InterfaceResult(k.value, [tag |-> "Ok"])]
        ELSE Then(auxiliary_device_interface_test(k, delay, answer), LAMBDA a :
                 IF a.hang THEN a
                 ELSE [a EXCEPT !.value = InterfaceResult(k.value, a.value)]))

\* Lines 184-188: both tests are made, then the results are combined.
test_keyboard_and_auxiliary_device(p, delay, answer) ==
    Then(keyboard_interface_test(p, delay, answer), LAMBDA k :
        IF k.hang THEN k
        ELSE Then(auxiliary_device_interface_test(k, delay, answer), LAMBDA a :
                 IF a.hang THEN a
                 ELSE [a EXCEPT !.value = InterfaceResult(k.value, a.value)]))

\* Lines 191-198.
enable_interfaces(p, devices, delay, answer) ==
    CASE devices = "Keyboard" -> dangerous_enable_keyboard_interface(p, delay, answer)
      [] devices = "AuxiliaryDevice" -> dangerous_enable_auxiliary_device(p, delay, answer)
      [] devices = "KeyboardAndAuxiliaryDevice" ->
            dangerous_enable_auxiliary_device(
                dangerous_enable_keyboard_interface(p, delay, answer), delay, answer)

\* enable_interrupts setting both interrupt-enable bits for any devices.
enable_interrupts_both(command_byte, devices) ==
    set(set(command_byte, ENABLE_KEYBOARD_INTERRUPT, TRUE), ENABLE_AUXILIARY_INTERRUPT, TRUE)

\* Lines 203-210.
enable_interrupts(command_byte, devices) ==
    CASE devices = "Keyboard" -> set(command_byte, ENABLE_KEYBOARD_INTERRUPT, TRUE)
      [] devices = "AuxiliaryDevice" -> set(command_byte, ENABLE_AUXILIARY_INTERRUPT, TRUE)
      [] devices = "KeyboardAndAuxiliaryDevice" ->
            set(set(command_byte, ENABLE_KEYBOARD_INTERRUPT, TRUE),
                ENABLE_AUXILIARY_INTERRUPT, TRUE)

\* Lines 190-216.
configure(p, devices, interrupts, delay, answer) ==
    Then(enable_interfaces(p, devices, delay, answer), LAMBDA e :
        IF ~interrupts THEN e
        ELSE Then(controller_command_byte(e, delay, answer), LAMBDA r :
                 IF r.hang THEN r
                 ELSE write_controller_command_byte(
                          r, enable_interrupts(r.value, devices), delay, answer)))

\* The interface test of the devices selected by an enable_* method.
selected_test(p, devices, delay, answer) ==
    CASE devices = "Keyboard" -> keyboard_interface_test(p, delay, answer)
      [] devices = "AuxiliaryDevice" -> auxiliary_device_interface_test(p, delay, answer)
      [] devices = "KeyboardAndAuxiliaryDevice" ->
            test_keyboard_and_auxiliary_device(p, delay, answer)

\* enable_devices configuring the devices before it looks at the test result.
enable_devices_configure_first(p, devices, interrupts, delay, answer) ==
    Then(selected_test(p, devices, delay, answer), LAMBDA t :
        IF t.hang THEN t
        ELSE Then(configure(t, devices, interrupts, delay, answer), LAMBDA c :
                 IF c.hang THEN c
                 ELSE IF t.value.tag = "Ok"
                 THEN [c EXCEPT !.value =
                          [tag |-> "Ok", handle |-> EnabledDevices(devices, interrupts)]]
                 ELSE [c EXCEPT !.value = [tag |-> "Err", handle |-> DevicesDisabled,
                                           error |-> t.value.error]]))

\* The match of the six enable_* methods, lines 142-182.
enable_devices(p, devices, interrupts, delay, answer) ==
    Then(selected_test(p, devices, delay, answer), LAMBDA t :
        IF t.hang THEN t
        ELSE IF t.value.tag = "Ok"
        THEN Then(configure(t, devices, interrupts, delay, answer), LAMBDA c :
                 IF c.hang THEN c
                 ELSE [c EXCEPT !.value =
                          [tag |-> "Ok", handle |-> EnabledDevices(devices, interrupts)]])
        ELSE [t EXCEPT !.value = [tag |-> "Err", handle |-> DevicesDisabled,
                                  error |-> t.value.error]])

(***************************************************************************)
(* EnabledDevices, lines 238-267.                                          *)
(***************************************************************************)
\* disable_devices disabling the keyboard interface first.
disable_devices_keyboard_first(p, delay, answer) ==
    dangerous_disable_auxiliary_device_interface(
        dangerous_disable_keyboard_interface(p, delay, answer), delay, answer)

\* disable_devices of EnabledDevices<T, D1, D2, Disabled>, lines 248-253.
disable_devices(p, delay, answer) ==
    dangerous_disable_keyboard_interface(
        dangerous_disable_auxiliary_device_interface(p, delay, answer), delay, answer)

(***************************************************************************)
(* The controller driver in use: the controller as found at power-on, then *)
(* InitController::start_init and any sequence of operations of the handle *)
(* that is live except ram and write_ram, while enabled devices deliver    *)
(* bytes and the controller empties its input buffer.                      *)
(***************************************************************************)
NoAnswer == [keyboard_test |-> 0, auxiliary_test |-> 0, self_test |-> 85, reset |-> <<>>]

Unit == [tag |-> "Unit"]

InitControllerWaitInterrupt == [kind |-> "InitControllerWaitInterrupt"]

ControllerInit ==
    /\ commands = CommandQueue_new.commands
    /\ current_command = CommandQueue_new.current_command
    /\ state = "ScancodesDisabled"
    /\ current_decoder = ScancodeDecoder_new
    /\ sent = <<>>
    /\ decoded = <<>>
    /\ calls = 0
    /\ op = [name |-> "power_on", arg |-> <<>>]
    /\ ret = Unit
    /\ io = <<>>
    /\ handle = [kind |-> "None"]
    /\ pc = "idle"
    /\ \E command_byte \in PowerOnCommandBytes, output \in PowerOnOutputs :
           port_io = Controller(command_byte, output)

\* The operation returned: r holds the controller and the accesses made.
Returned(name, arg, r, new_handle, result) ==
    /\ ~r.hang
    /\ port_io' = r.port_io
    /\ io' = r.io
    /\ handle' = new_handle
    /\ pc' = pc
    /\ ret' = result
    /\ op' = [name |-> name, arg |-> arg]
    /\ UNCHANGED keyboard_vars

StartInit ==
    /\ handle.kind = "None"
    /\ \E delay \in 0..MaxBusy :
           \E r \in {start_init(port_io, delay, NoAnswer)} :
               Returned("start_init", <<>>, r, InitControllerWaitInterrupt, Unit)

\* InitControllerWaitInterrupt::interrupt_received, lines 344-346, called when
\* the controller has answered.
InterruptReceived ==
    /\ handle.kind = "InitControllerWaitInterrupt"
    /\ port_io.output # <<>>
    /\ \E delay \in 0..MaxBusy :
           \E r \in {interrupt_received(Ports(port_io), delay, NoAnswer)} :
               Returned("interrupt_received", <<>>, r, DevicesDisabled, Unit)

\* InitControllerWaitInterrupt::poll_data, lines 348-350.
PollData ==
    /\ handle.kind = "InitControllerWaitInterrupt"
    /\ \E delay \in 0..MaxBusy :
           \E r \in {poll_data(Ports(port_io), delay, NoAnswer)} :
               Returned("poll_data", <<>>, r, DevicesDisabled, Unit)

ScancodeTranslation ==
    /\ handle.kind = "DevicesDisabled"
    /\ \E enabled \in BOOLEAN, delay \in 0..MaxBusy :
           \E r \in {scancode_translation(Ports(port_io), enabled, delay, NoAnswer)} :
               Returned("scancode_translation", <<enabled>>, r, handle, Unit)

\* The enable_* method for the devices, with or without interrupts.
EnableWith(name, devices, interrupts) ==
    /\ handle.kind = "DevicesDisabled"
    /\ \E delay \in 0..MaxBusy, keyboard_test \in TestResults,
          auxiliary_test \in TestResults :
           /\ devices = "Keyboard" => auxiliary_test = 0
           /\ devices = "AuxiliaryDevice" => keyboard_test = 0
           /\ \E r \in {enable_devices(Ports(port_io), devices, interrupts, delay,
                            [NoAnswer EXCEPT !.keyboard_test = keyboard_test,
                                             !.auxiliary_test = auxiliary_test])} :
                  /\ ~r.hang
                  /\ Returned(name, <<>>, r, r.value.handle,
                              IF r.value.tag = "Ok" THEN [tag |-> "Ok"]
                              ELSE [tag |-> "Err", error |-> r.value.error])

EnableKeyboard == EnableWith("enable_keyboard", "Keyboard", FALSE)

EnableAuxiliaryDevice ==
    EnableWith("enable_auxiliary_device", "AuxiliaryDevice", FALSE)

EnableKeyboardAndAuxiliaryDevice ==
    EnableWith("enable_keyboard_and_auxiliary_device", "KeyboardAndAuxiliaryDevice", FALSE)

EnableKeyboardAndInterrupts ==
    EnableWith("enable_keyboard_and_interrupts", "Keyboard", TRUE)

EnableAuxiliaryDeviceAndInterrupts ==
    EnableWith("enable_auxiliary_device_and_interrupts", "AuxiliaryDevice", TRUE)

EnableKeyboardAndAuxiliaryDeviceAndInterrupts ==
    EnableWith("enable_keyboard_and_auxiliary_device_and_interrupts",
               "KeyboardAndAuxiliaryDevice", TRUE)

KeyboardInterfaceTest ==
    /\ handle.kind = "DevicesDisabled"
    /\ \E delay \in 0..MaxBusy, keyboard_test \in TestResults :
           \E r \in {keyboard_interface_test(Ports(port_io), delay,
                         [NoAnswer EXCEPT !.keyboard_test = keyboard_test])} :
               Returned("keyboard_interface_test", <<>>, r, handle, r.value)

AuxiliaryDeviceInterfaceTest ==
    /\ handle.kind = "DevicesDisabled"
    /\ \E delay \in 0..MaxBusy, auxiliary_test \in TestResults :
           \E r \in {auxiliary_device_interface_test(Ports(port_io), delay,
                         [NoAnswer EXCEPT !.auxiliary_test = auxiliary_test])} :
               Returned("auxiliary_device_interface_test", <<>>, r, handle, r.value)

SelfTest ==
    /\ handle.kind = "DevicesDisabled"
    /\ \E delay \in 0..MaxBusy, result \in SelfTestResults,
          reset \in {<<>>} \cup {<<b>> : b \in ResetCommandBytes} :
           \E r \in {self_test(Ports(port_io), delay,
                         [NoAnswer EXCEPT !.self_test = result, !.reset = reset])} :
               Returned("self_test", <<>>, r, handle, r.value)

Ram ==
    /\ handle.kind = "DevicesDisabled"
    /\ \E delay \in 0..MaxBusy :
           \E r \in {ram(Ports(port_io), delay, NoAnswer)} :
               Returned("ram", <<>>, r, handle, [tag |-> "Ram", data |-> r.value])

WriteRam ==
    /\ handle.kind = "DevicesDisabled"
    /\ \E delay \in 0..MaxBusy, data \in RamImages :
           \E r \in {write_ram(Ports(port_io), data, delay, NoAnswer)} :
               Returned("write_ram", <<data>>, r, handle, Unit)

\* EnabledDevices<T, D1, D2, InterruptsEnabled>::disable_devices, lines 241-244.
DisableDevicesAndInterrupts ==
    /\ handle.kind = "EnabledDevices"
    /\ handle.interrupts
    /\ \E delay \in 0..MaxBusy :
           \E r \in {start_init(port_io, delay, NoAnswer)} :
               Returned("disable_devices", <<>>, r, InitControllerWaitInterrupt, Unit)

\* EnabledDevices<T, D1, D2, Disabled>::disable_devices, lines 248-253.
DisableDevices ==
    /\ handle.kind = "EnabledDevices"
    /\ ~handle.interrupts
    /\ \E delay \in 0..MaxBusy :
           \E r \in {disable_devices(Ports(port_io), delay, NoAnswer)} :
               Returned("disable_devices", <<>>, r, DevicesDisabled, Unit)

SendToKeyboard ==
    /\ handle.kind = "EnabledDevices"
    /\ handle.keyboard
    /\ \E data \in DeviceCommands :
           \E r \in {send_to_keyboard(Ports(port_io), data)} :
               Returned("send_to_keyboard", <<data>>, r, handle, Unit)

SendToAuxiliaryDevice ==
    /\ handle.kind = "EnabledDevices"
    /\ handle.auxiliary
    /\ \E data \in DeviceCommands, delay \in 0..MaxBusy :
           \E r \in {send_to_auxiliary_device(Ports(port_io), data, delay, NoAnswer)} :
               Returned("send_to_auxiliary_device", <<data>>, r, handle, Unit)

\* A polling or interrupt read returned its byte; the handle stays.
ReadBy(name, result) ==
    \E r \in {result} : Returned(name, <<>>, r, handle, r.value)

PollKeyboardData ==
    /\ handle.kind = "EnabledDevices"
    /\ handle.keyboard
    /\ ReadBy("poll_keyboard_data", poll_keyboard_data(Ports(port_io)))

PollAuxiliaryDeviceData ==
    /\ handle.kind = "EnabledDevices"
    /\ handle.auxiliary
    /\ ReadBy("poll_auxiliary_device_data", poll_auxiliary_device_data(Ports(port_io)))

\* Called from the handler of the keyboard interrupt: a keyboard byte is there.
KeyboardInterruptReadDataPort ==
    /\ handle.kind = "EnabledDevices"
    /\ handle.keyboard /\ handle.interrupts
    /\ port_io.output # <<>>
    /\ ~port_io.output[1].auxiliary
    /\ ReadBy("keyboard_interrupt_read_data_port", interrupt_read_data_port(Ports(port_io)))

\* Called from the handler of the auxiliary device interrupt.
AuxiliaryDeviceInterruptReadDataPort ==
    /\ handle.kind = "EnabledDevices"
    /\ handle.auxiliary /\ handle.interrupts
    /\ port_io.output # <<>>
    /\ port_io.output[1].auxiliary
    /\ ReadBy("auxiliary_device_interrupt_read_data_port",
              interrupt_read_data_port(Ports(port_io)))

\* A device whose interface is enabled puts a byte into the empty output buffer.
DeviceData ==
    /\ port_io.output = <<>>
    /\ \E data \in DeviceBytes, auxiliary \in BOOLEAN :
           /\ ~contains(port_io.command_byte,
                        IF auxiliary THEN DISABLE_AUXILIARY_DEVICE ELSE DISABLE_KEYBOARD)
           /\ port_io' = [port_io EXCEPT
                             !.output = <<[data |-> data, auxiliary |-> auxiliary]>>]
           /\ op' = [name |-> "device_data", arg |-> <<data>>]
           /\ UNCHANGED <<handle, io, ret, pc>>
           /\ UNCHANGED keyboard_vars

\* The controller takes the byte out of its input buffer.
InputBufferEmptied ==
    /\ port_io.input_buffer_full
    /\ port_io' = [port_io EXCEPT !.input_buffer_full = FALSE]
    /\ op' = [name |-> "input_buffer_emptied", arg |-> <<>>]
    /\ UNCHANGED <<handle, io, ret, pc>>
    /\ UNCHANGED keyboard_vars

ControllerNext ==
    \/ StartInit
    \/ InterruptReceived
    \/ PollData
    \/ ScancodeTranslation
    \/ EnableKeyboard
    \/ EnableAuxiliaryDevice
    \/ EnableKeyboardAndAuxiliaryDevice
    \/ EnableKeyboardAndInterrupts
    \/ EnableAuxiliaryDeviceAndInterrupts
    \/ EnableKeyboardAndAuxiliaryDeviceAndInterrupts
    \/ KeyboardInterfaceTest
    \/ AuxiliaryDeviceInterfaceTest
    \/ SelfTest
    \/ DisableDevicesAndInterrupts
    \/ DisableDevices
    \/ SendToKeyboard
    \/ SendToAuxiliaryDevice
    \/ PollKeyboardData
    \/ PollAuxiliaryDeviceData
    \/ KeyboardInterruptReadDataPort
    \/ AuxiliaryDeviceInterruptReadDataPort
    \/ DeviceData
    \/ InputBufferEmptied

ControllerSpec == ControllerInit /\ [][ControllerNext]_vars

(***************************************************************************)
(* The controller RAM in use: start_init and poll_data, then any sequence  *)
(* of ram and write_ram calls on the DevicesDisabled handle.               *)
(***************************************************************************)
RamNext ==
    \/ StartInit
    \/ PollData
    \/ Ram
    \/ WriteRam
    \/ InputBufferEmptied

RamSpec == ControllerInit /\ [][RamNext]_vars

(***************************************************************************)
(* One call of send_controller_command_and_wait_response, lines 322-338,   *)
(* followed port access by port access while the hardware behind the ports *)
(* runs on its own: the controller takes the byte of its input buffer when *)
(* it likes and answers the command or not, and a device whose interface   *)
(* is enabled may put a byte into the empty output buffer.  op holds the   *)
(* command, io the access of the last step, ret the byte returned.         *)
(***************************************************************************)
\* The command bytes of the controller during the call: interfaces disabled
\* (after the init) and interfaces enabled (inside configure, lines 190-202).
HandshakeCommandBytes == {52, 4}

\* The commands sent with send_controller_command_and_wait_response.
HandshakeCommands ==
    {READ_CONTROLLER_COMMAND_BYTE, KEYBOARD_INTERFACE_TEST,
     AUXILIARY_DEVICE_INTERFACE_TEST, SELF_TEST}

HandshakeInit ==
    /\ commands = CommandQueue_new.commands
    /\ current_command = CommandQueue_new.current_command
    /\ state = "ScancodesDisabled"
    /\ current_decoder = ScancodeDecoder_new
    /\ sent = <<>>
    /\ decoded = <<>>
    /\ calls = 0
    /\ ret = <<>>
    /\ io = <<>>
    /\ handle = DevicesDisabled
    /\ pc = "start"
    /\ \E command \in HandshakeCommands :
           op = [name |-> "send_controller_command_and_wait_response",
                 arg |-> <<command>>]
    /\ \E command_byte \in HandshakeCommandBytes, full \in BOOLEAN,
          output \in {<<>>} \cup {<<[data |-> data, auxiliary |-> auxiliary]>> :
                                     data \in DeviceBytes, auxiliary \in BOOLEAN} :
           port_io = [Controller(command_byte, output) EXCEPT !.input_buffer_full = full]

\* One port access of the driver, which goes on at the position next.
Access(r, next) ==
    /\ port_io' = r.port_io
    /\ io' = r.io
    /\ pc' = next
    /\ UNCHANGED <<handle, op>>
    /\ UNCHANGED keyboard_vars

\* Lines 327-329: the status is read, and the data port when a byte is there.
DiscardStaleData ==
    \/ /\ pc = "start"
       /\ \E r \in {status(Ports(port_io))} :
              Access(r, IF data_availability(StatusInfo(Last(r))) # <<>>
                        THEN "discard" ELSE "wait")
       /\ ret' = ret
    \/ /\ pc = "discard"
       /\ Access(read_data_port(Ports(port_io)), "wait")
       /\ ret' = ret

\* Lines 307-310: the status is read until the input buffer is empty, then
\* the command is written; it waits in the input buffer for the controller.
SendControllerCommand ==
    \/ /\ pc = "wait"
       /\ \E r \in {status(Ports(port_io))} :
              Access(r, IF input_buffer_full(StatusInfo(Last(r))) THEN "wait" ELSE "write")
       /\ ret' = ret
    \/ /\ pc = "write"
       /\ Access([Ports([port_io EXCEPT !.input_buffer_full = TRUE]) EXCEPT
                     !.io = <<Write("COMMAND_REGISTER", op.arg[1])>>], "poll")
       /\ ret' = ret

\* PollResponse reading whatever byte the status reports.
PollResponse_any_owner ==
    \/ /\ pc = "poll"
       /\ \E r \in {status(Ports(port_io))} :
              Access(r, IF data_availability(StatusInfo(Last(r))) # <<>>
                        THEN "read" ELSE "poll")
       /\ ret' = ret
    \/ /\ pc = "read"
       /\ \E r \in {read_data_port(Ports(port_io))} :
              Access(r, "done") /\ ret' = <<Last(r)>>

\* Lines 333-337: the status is read until it names the keyboard or the
\* controller as the owner of a byte, then the data port is read and the byte
\* returned.
PollResponse ==
    \/ /\ pc = "poll"
       /\ \E r \in {status(Ports(port_io))} :
              Access(r, IF data_availability(StatusInfo(Last(r)))
                               = <<"KeyboardOrCommandController">>
                        THEN "read" ELSE "poll")
       /\ ret' = ret
    \/ /\ pc = "read"
       /\ \E r \in {read_data_port(Ports(port_io))} :
              Access(r, "done") /\ ret' = <<Last(r)>>

\* The hardware while the call runs: the controller takes the byte of its
\* input buffer, and the command written by the call is answered or dropped;
\* a device with its interface enabled delivers a byte.
Hardware ==
    /\ pc # "done"
    /\ \/ /\ port_io.input_buffer_full
          /\ port_io' = [port_io EXCEPT !.input_buffer_full = FALSE]
       \/ /\ port_io.input_buffer_full
          /\ pc \in {"poll", "read"}
          /\ port_io.output = <<>>
          /\ \E test \in TestResults, result \in SelfTestResults :
                 port_io' = [WriteCommand(port_io, op.arg[1],
                                 [NoAnswer EXCEPT !.keyboard_test = test,
                                                  !.auxiliary_test = test,
                                                  !.self_test = result])
                             EXCEPT !.input_buffer_full = FALSE]
       \/ /\ port_io.output = <<>>
          /\ \E data \in DeviceBytes, auxiliary \in BOOLEAN :
                 /\ ~contains(port_io.command_byte,
                              IF auxiliary THEN DISABLE_AUXILIARY_DEVICE
                              ELSE DISABLE_KEYBOARD)
                 /\ port_io' = [port_io EXCEPT
                                   !.output = <<[data |-> data, auxiliary |-> auxiliary]>>]
    /\ UNCHANGED <<handle, op, io, ret, pc>>
    /\ UNCHANGED keyboard_vars

HandshakeNext == DiscardStaleData \/ SendControllerCommand \/ PollResponse \/ Hardware

HandshakeSpec == HandshakeInit /\ [][HandshakeNext]_vars

\* The driver runs: the call goes on with its next port access.
HandshakeLiveSpec ==
    HandshakeSpec /\ WF_vars(DiscardStaleData \/ SendControllerCommand \/ PollResponse)

(***************************************************************************)
(* The result of an interface test on its own: the controller answers the  *)
(* test command with any byte, from_test_result maps it.                   *)
(***************************************************************************)
TestBytes == 0..255

TestResultInit ==
    /\ commands = CommandQueue_new.commands
    /\ current_command = CommandQueue_new.current_command
    /\ state = "ScancodesDisabled"
    /\ current_decoder = ScancodeDecoder_new
    /\ sent = <<>>
    /\ decoded = <<>>
    /\ calls = 0
    /\ NoController
    /\ \E value \in TestBytes :
           /\ op = [name |-> "test_result", arg |-> <<value>>]
           /\ ret = Unit

\* let test_result = send_controller_command_and_wait_response(..), lines 442
\* and 455: the controller answers another test.
TestAnswered ==
    /\ \E value \in TestBytes :
           /\ op' = [name |-> "test_result", arg |-> <<value>>]
           /\ ret' = Unit
    /\ UNCHANGED keyboard_vars
    /\ UNCHANGED controller_vars

\* DeviceInterfaceError::from_test_result(test_result), lines 443 and 456.
FromTestResult ==
    /\ op.name = "test_result"
    /\ op' = [name |-> "from_test_result", arg |-> op.arg]
    /\ ret' = from_test_result(op.arg[1])
    /\ UNCHANGED keyboard_vars
    /\ UNCHANGED controller_vars

TestResultNext == TestAnswered \/ FromTestResult

TestResultSpec == TestResultInit /\ [][TestResultNext]_vars

(***************************************************************************)
(* The status decoder on its own: status() makes a StatusInfo from any     *)
(* byte read from the status register, data_availability decodes it.       *)
(***************************************************************************)
\* self.status().data_availability() on a status register that holds raw.
Availability(raw) == data_availability(StatusInfo(raw))

StatusInit ==
    /\ commands = CommandQueue_new.commands
    /\ current_command = CommandQueue_new.current_command
    /\ state = "ScancodesDisabled"
    /\ current_decoder = ScancodeDecoder_new
    /\ sent = <<>>
    /\ decoded = <<>>
    /\ calls = 0
    /\ NoController
    /\ \E raw \in StatusBytes :
           /\ op = [name |-> "status", arg |-> <<raw>>]
           /\ ret = StatusInfo(raw)

\* ReadStatus::status reads another byte.
Status ==
    /\ \E raw \in StatusBytes :
           /\ op' = [name |-> "status", arg |-> <<raw>>]
           /\ ret' = StatusInfo(raw)
    /\ UNCHANGED keyboard_vars
    /\ UNCHANGED controller_vars

\* StatusInfo::data_availability of the StatusInfo just read.
DataAvailability ==
    /\ op.name = "status"
    /\ op' = [name |-> "data_availability", arg |-> op.arg]
    /\ ret' = data_availability(ret)
    /\ UNCHANGED keyboard_vars
    /\ UNCHANGED controller_vars

StatusNext == Status \/ DataAvailability

StatusSpec == StatusInit /\ [][StatusNext]_vars

(***************************************************************************)
(* The command queue used on its own: CommandQueue::new, then any sequence *)
(* of add and receive_data calls.                                          *)
(***************************************************************************)
QueueInit ==
    /\ commands = CommandQueue_new.commands
    /\ current_command = CommandQueue_new.current_command
    /\ state = "ScancodesDisabled"
    /\ current_decoder = ScancodeDecoder_new
    /\ op = [name |-> "new", arg |-> <<>>]
    /\ ret = <<>>
    /\ sent = <<>>
    /\ decoded = <<>>
    /\ calls = 0
    /\ NoController

\* ret holds the Result of add in a sequence, as it holds the Option of
\* receive_data.
QueueAdd ==
    \E command \in NewCommands :
        \E r \in {add(Queue, command, <<>>)} :
        /\ commands' = r.commands
        /\ current_command' = r.current_command
        /\ sent' = r.device
        /\ ret' = <<r.result>>
        /\ op' = [name |-> "add", arg |-> <<command>>]
        /\ UNCHANGED <<state, current_decoder, decoded, calls>>
        /\ UNCHANGED controller_vars

QueueReceiveData ==
    \E new_data \in ProtocolBytes :
        \E r \in {CommandQueue_receive_data(Queue, new_data, <<>>)} :
        /\ commands' = r.commands
        /\ current_command' = r.current_command
        /\ sent' = r.device
        /\ ret' = r.result
        /\ op' = [name |-> "receive_data", arg |-> <<new_data>>]
        /\ UNCHANGED <<state, current_decoder, decoded, calls>>
        /\ UNCHANGED controller_vars

QueueNext == QueueAdd \/ QueueReceiveData

QueueSpec == QueueInit /\ [][QueueNext]_vars

(***************************************************************************)
(* The keyboard session: Keyboard::new, then any sequence of its methods   *)
(* and of receive_data calls.  A call that panicked ends the program.      *)
(***************************************************************************)
Keyboard == [commands |-> commands, current_command |-> current_command,
             state |-> state, current_decoder |-> current_decoder]

Methods ==
    {"set_defaults_and_disable", "set_defaults_and_enable", "enable",
     "set_status_indicators", "scancode_set_3_set_all_keys",
     "scancode_set_3_set_key_type", "set_typematic_rate", "read_id", "echo",
     "set_alternate_scancode_set"}

Panicked == op.name \in Methods /\ ret = Panic

\* A call is made on a keyboard that has not panicked.
Call(max) ==
    /\ ~Panicked
    /\ calls < max
    /\ calls' = calls + 1

Init ==
    LET k == Keyboard_new(<<>>) IN
    /\ k.result = [tag |-> "Ok"]
    /\ commands = k.commands
    /\ current_command = k.current_command
    /\ state = k.state
    /\ current_decoder = k.current_decoder
    /\ sent = k.device
    /\ ret = k.result
    /\ op = [name |-> "set_defaults_and_disable", arg |-> <<>>]
    /\ decoded = <<>>
    /\ calls = 0
    /\ NoController

\* The effect of a method call that returned r.
Called(name, arg, result, max) ==
    \E r \in {result} :
    /\ Call(max)
    /\ commands' = r.commands
    /\ current_command' = r.current_command
    /\ state' = r.state
    /\ current_decoder' = r.current_decoder
    /\ sent' = r.device
    /\ ret' = r.result
    /\ op' = [name |-> name, arg |-> arg]
    /\ decoded' = <<>>
    /\ UNCHANGED controller_vars

SetDefaultsAndDisable ==
    Called("set_defaults_and_disable", <<>>, set_defaults_and_disable(Keyboard, <<>>), MaxCalls)

SetDefaultsAndEnable ==
    Called("set_defaults_and_enable", <<>>, set_defaults_and_enable(Keyboard, <<>>), MaxCalls)

Enable == Called("enable", <<>>, Keyboard_enable(Keyboard, <<>>), MaxCalls)

SetStatusIndicators ==
    \E indicators \in IndicatorArgs :
        Called("set_status_indicators", <<indicators>>,
               Keyboard_set_status_indicators(Keyboard, <<>>, indicators), MaxCalls)

ScancodeSet3SetAllKeys ==
    \E set_all_keys \in SetAllKeysArgs :
        Called("scancode_set_3_set_all_keys", <<set_all_keys>>,
               Keyboard_scancode_set_3_set_all_keys(Keyboard, <<>>, set_all_keys), MaxCalls)

ScancodeSet3SetKeyType ==
    \E set_key_type \in SetKeyTypeArgs, scancode \in ScancodeArgs :
        Called("scancode_set_3_set_key_type", <<set_key_type, scancode>>,
               Keyboard_scancode_set_3_set_key_type(Keyboard, <<>>, set_key_type, scancode), MaxCalls)

SetScancodeDecoder ==
    \E setting \in {"Set1", "Set2"} :
        /\ Call(MaxCalls)
        /\ current_decoder' = set_scancode_decoder(Keyboard, setting).current_decoder
        /\ op' = [name |-> "set_scancode_decoder", arg |-> <<setting>>]
        /\ ret' = [tag |-> "Ok"]
        /\ sent' = <<>>
        /\ decoded' = <<>>
        /\ UNCHANGED <<commands, current_command, state>>
        /\ UNCHANGED controller_vars

SetTypematicRate ==
    \E delay_and_rate \in TypematicArgs :
        Called("set_typematic_rate", <<delay_and_rate>>,
               Keyboard_set_typematic_rate(Keyboard, <<>>, delay_and_rate), MaxCalls)

ReadId == Called("read_id", <<>>, Keyboard_read_id(Keyboard, <<>>), MaxCalls)

Echo == Called("echo", <<>>, Keyboard_echo(Keyboard, <<>>), MaxCalls)

SetAlternateScancodeSetWithin(max) ==
    \E scancode_setting \in ScancodeSettingArgs :
        Called("set_alternate_scancode_set", <<scancode_setting>>,
               set_alternate_scancode_set(Keyboard, <<>>, scancode_setting), max)

SetAlternateScancodeSet == SetAlternateScancodeSetWithin(MaxCalls)

ReceiveDataFrom(bytes, max) ==
    \E new_data \in bytes, outcome \in DecodeOutcomes :
        \E r \in {Keyboard_receive_data(Keyboard, new_data, <<>>, outcome)} :
        /\ Call(max)
        /\ commands' = r.commands
        /\ current_command' = r.current_command
        /\ state' = r.state
        /\ current_decoder' = r.current_decoder
        /\ sent' = r.device
        /\ decoded' = r.decoded
        /\ ret' = r.result
        /\ op' = [name |-> "receive_data", arg |-> <<new_data>>]
        /\ UNCHANGED controller_vars

ReceiveData == ReceiveDataFrom(RecvBytes, MaxCalls)

Next ==
    \/ SetDefaultsAndDisable
    \/ SetDefaultsAndEnable
    \/ Enable
    \/ SetStatusIndicators
    \/ ScancodeSet3SetAllKeys
    \/ ScancodeSet3SetKeyType
    \/ SetScancodeDecoder
    \/ SetTypematicRate
    \/ ReadId
    \/ Echo
    \/ SetAlternateScancodeSet
    \/ ReceiveData

Spec == Init /\ [][Next]_vars

(***************************************************************************)
(* The keyboard session of a caller that only selects scancode sets:       *)
(* Keyboard::new, then set_alternate_scancode_set and receive_data calls.  *)
(***************************************************************************)
SelectionSetAlternateScancodeSet == SetAlternateScancodeSetWithin(MaxSelectionCalls)

SelectionReceiveData == ReceiveDataFrom(SelectionBytes, MaxSelectionCalls)

SelectionNext == SelectionSetAlternateScancodeSet \/ SelectionReceiveData

SelectionSpec == Init /\ [][SelectionNext]_vars

(***************************************************************************)
(* The keyboard session of a caller that only reads the identity:          *)
(* Keyboard::new, then read_id and receive_data calls.                     *)
(***************************************************************************)
IdentifyReadId == Called("read_id", <<>>, Keyboard_read_id(Keyboard, <<>>), MaxIdentifyCalls)

IdentifyReceiveData == ReceiveDataFrom(IdentifyBytes, MaxIdentifyCalls)

IdentifyNext == IdentifyReadId \/ IdentifyReceiveData

IdentifySpec == Init /\ [][IdentifyNext]_vars

(***************************************************************************)
(* Properties of the command queue (QueueSpec).                            *)
(***************************************************************************)
IsFinished(result) == result # <<>> /\ result[1].tag = "CommandFinished"

HasData(command) ==
    command.kind \in {"SendCommandAndData", "SendCommandAndDataSingleAck",
                      "SendCommandAndDataAndReceiveResponse"}

\* The byte is the command byte or the payload byte of the command.
BelongsTo(byte, command) ==
    byte = command.command \/ (HasData(command) /\ byte = command.data)

\* The same command, whatever its sub-state and the response bytes it has stored.
SameCommand(c1, c2) ==
    /\ c1.kind = c2.kind
    /\ c1.command = c2.command
    /\ HasData(c1) => c1.data = c2.data

\* C1: at most one command is outstanding.  While a command is in flight and
\* until the receive_data call that finishes it, the same command stays in
\* flight and every byte sent is its command byte or its payload byte; add sends
\* nothing; the call that finishes it returns that command and sends at most
\* the command byte of the command it starts next.
C1_OneCommandOutstanding ==
    [][current_command # <<>> =>
        LET c == current_command[1] IN
        IF op'.name = "receive_data" /\ IsFinished(ret')
        THEN /\ SameCommand(ret'[1].command, c)
             /\ \/ sent' = <<>> /\ current_command' = <<>>
                \/ /\ current_command' # <<>>
                   /\ sent' = <<current_command'[1].command>>
        ELSE /\ current_command' # <<>>
             /\ SameCommand(current_command'[1], c)
             /\ \A i \in 1..Len(sent') : BelongsTo(sent'[i], c)
             /\ op'.name = "add" => sent' = <<>>]_vars

\* A payload byte was re-sent for the in-flight command while another command waits.
C1_Witness ==
    /\ op.name = "receive_data"
    /\ op.arg = <<RESEND>>
    /\ commands # <<>>
    /\ current_command # <<>>
    /\ HasData(current_command[1])
    /\ current_command[1].command # commands[1].command
    /\ sent = <<current_command[1].data>>

\* C2: the FIFO of not-yet-started commands never holds more than Capacity commands.
C2_WithinCapacity == Len(commands) <= Capacity

\* add was called on a full FIFO.
C2_Witness ==
    /\ op.name = "add"
    /\ ret[1].tag = "Err"
    /\ Len(commands) = Capacity

\* C3: add on a full FIFO returns the capacity error with the rejected command
\* and changes neither the FIFO nor the in-flight command, and sends nothing.
C3_AddOnFullQueue ==
    [][(op'.name = "add" /\ Len(commands) >= Capacity) =>
        /\ ret' = <<[tag |-> "Err", element |-> op'.arg[1]]>>
        /\ commands' = commands
        /\ current_command' = current_command
        /\ sent' = <<>>]_vars

\* A command was rejected while the in-flight command was past its first stage.
C3_Witness ==
    /\ op.name = "add"
    /\ ret = <<[tag |-> "Err", element |-> op.arg[1]]>>
    /\ Len(commands) = Capacity
    /\ current_command # <<>>
    /\ current_command[1].kind = "AckResponseWithReturnTwoBytes"
    /\ current_command[1].state = "WaitSecondByte"

\* C4: add on a queue without in-flight command starts the command (its command
\* byte is sent once, the FIFO stays empty); add on a queue with an in-flight
\* command and free space appends at the back and sends nothing.
C4_AddStartsOrAppends ==
    [][op'.name = "add" =>
        /\ current_command = <<>> =>
            /\ current_command' = <<op'.arg[1]>>
            /\ sent' = <<op'.arg[1].command>>
            /\ commands' = <<>>
            /\ ret' = <<[tag |-> "Ok"]>>
        /\ (current_command # <<>> /\ Len(commands) < Capacity) =>
            /\ commands' = Append(commands, op'.arg[1])
            /\ sent' = <<>>
            /\ current_command' = current_command
            /\ ret' = <<[tag |-> "Ok"]>>]_vars

\* A command was appended behind another queued command.
C4_Witness ==
    /\ op.name = "add"
    /\ ret = <<[tag |-> "Ok"]>>
    /\ Len(commands) >= 2
    /\ commands[Len(commands)] = op.arg[1]
    /\ sent = <<>>

\* C5: the FIFO is only appended to at the back and taken from at the front, and
\* the command taken is the one started.  When receive_data returns
\* CommandFinished, the front of a non-empty FIFO becomes the in-flight command
\* and its command byte is sent in that call; with an empty FIFO the queue
\* becomes idle and nothing is sent.
C5_StartedInOrder ==
    [][/\ \/ commands' = commands
          \/ \E c \in NewCommands : commands' = Append(commands, c)
          \/ /\ commands # <<>>
             /\ commands' = Tail(commands)
             /\ current_command' = <<Head(commands)>>
       /\ (op'.name = "receive_data" /\ IsFinished(ret')) =>
            IF commands # <<>>
            THEN /\ current_command' = <<Head(commands)>>
                 /\ commands' = Tail(commands)
                 /\ sent' = <<Head(commands).command>>
            ELSE /\ empty([commands |-> commands', current_command |-> current_command'])
                 /\ sent' = <<>>]_vars

\* A command finished, the next one was started and another one still waits.
C5_Witness ==
    /\ op.name = "receive_data"
    /\ IsFinished(ret)
    /\ commands # <<>>
    /\ current_command # <<>>
    /\ sent = <<current_command[1].command>>
    /\ current_command[1] # commands[1]

\* The sub-states the RESEND handling is claimed for.
AckWaiting(command) ==
    \/ command.kind \in {"AckResponse", "Echo"}
    \/ command.kind = "AckResponseWithReturnTwoBytes" /\ command.state = "WaitAck"
    \/ HasData(command) /\ command.state \in {"WaitAck1", "WaitAck2"}

FirstStage(command) ==
    \/ command.kind \in {"AckResponse", "Echo"}
    \/ command.state \in {"WaitAck", "WaitAck1"}

\* C6: RESEND in an ACK-waiting sub-state sends exactly one byte, the command
\* byte in a first-stage state and the payload byte in a second-stage state, and
\* leaves the command in flight in the same sub-state and the FIFO unchanged.
C6_ResendRepeatsByte ==
    [][(/\ op'.name = "receive_data"
        /\ op'.arg = <<RESEND>>
        /\ current_command # <<>>
        /\ AckWaiting(current_command[1])) =>
        /\ sent' = <<IF FirstStage(current_command[1])
                     THEN current_command[1].command
                     ELSE current_command[1].data>>
        /\ current_command' = current_command
        /\ commands' = commands]_vars

\* RESEND answered in the second stage of a single-ack command, FIFO not empty.
C6_Witness ==
    /\ op.name = "receive_data"
    /\ op.arg = <<RESEND>>
    /\ current_command # <<>>
    /\ current_command[1].kind = "SendCommandAndDataSingleAck"
    /\ current_command[1].state = "WaitAck2"
    /\ sent = <<current_command[1].data>>
    /\ commands # <<>>

(***************************************************************************)
(* Properties of the keyboard session (SelectionSpec).                     *)
(***************************************************************************)
\* The byte that confirms the command in its current sub-state.
Confirmation(command) == IF command.kind = "Echo" THEN ECHO ELSE ACK

\* The sub-states in which the code compares the byte with the confirmation
\* byte.  (WaitAck2 of SendCommandAndDataSingleAck is finished by any byte.)
WaitsForAck(command) ==
    \/ command.kind \in {"AckResponse", "Echo"}
    \/ command.kind = "AckResponseWithReturnTwoBytes" /\ command.state = "WaitAck"
    \/ command.kind \in {"SendCommandAndData", "SendCommandAndDataAndReceiveResponse"}
         /\ command.state \in {"WaitAck1", "WaitAck2"}
    \/ command.kind = "SendCommandAndDataSingleAck" /\ command.state = "WaitAck1"

\* C7: while a command waits for an ACK, a byte that is no sentinel, not the
\* confirmation byte and not RESEND is reported as UnexpectedData(byte) by the
\* command protocol and given to the scancode decoder, and the command stays
\* in flight in the same sub-state.
C7_UnexpectedByteDecoded ==
    [][(/\ op'.name = "receive_data"
        /\ current_command # <<>>
        /\ WaitsForAck(current_command[1])
        /\ ~IsSentinel(op'.arg[1])
        /\ op'.arg[1] \notin {Confirmation(current_command[1]), RESEND}) =>
        /\ CommandQueue_receive_data(Keyboard, op'.arg[1], <<>>).result
             = <<UnexpectedData(op'.arg[1])>>
        /\ decoded' = <<op'.arg[1]>>
        /\ current_command' = current_command
        /\ commands' = commands
        /\ sent' = <<>>]_vars

(***************************************************************************)
(* Retries (QueueLiveSpec: the queue with calls that keep coming).         *)
(***************************************************************************)
QueueLiveSpec == QueueSpec /\ WF_vars(QueueNext)

\* A byte of the in-flight command is sent again and the command stays where it is.
ReSend ==
    /\ op'.name = "receive_data"
    /\ current_command # <<>>
    /\ ~IsFinished(ret')
    /\ current_command' = current_command
    /\ sent' # <<>>

\* A command finishes.
Finish == op'.name = "receive_data" /\ IsFinished(ret')

\* C8 as claimed: no command is re-sent infinitely often, so if bytes keep being
\* re-sent then commands keep finishing.
C8_NoUnboundedRetries == []<><<ReSend>>_vars => []<><<Finish>>_vars

\* C8 amended: the protocol never retries on its own.  Every re-send is the
\* answer to one RESEND byte and is one byte long; nothing limits their number.
C8_ResendOnlyOnRequest ==
    [][ReSend =>
        /\ op'.arg = <<RESEND>>
        /\ Len(sent') = 1
        /\ BelongsTo(sent'[1], current_command[1])
        /\ commands' = commands]_vars

\* The command byte of a first-stage command was sent again after a RESEND.
C8_Witness ==
    /\ op.name = "receive_data"
    /\ op.arg = <<RESEND>>
    /\ ret = <<>>
    /\ current_command # <<>>
    /\ FirstStage(current_command[1])
    /\ sent = <<current_command[1].command>>

(***************************************************************************)
(* Properties of the keyboard session (Spec).                              *)
(***************************************************************************)
\* The commands a method hands to the queue.
IssuedCommands(o) ==
    CASE o.name = "set_defaults_and_disable" -> <<default_disable>>
      [] o.name = "set_defaults_and_enable" -> <<set_default>>
      [] o.name = "enable" -> <<enable>>
      [] o.name = "set_status_indicators" -> <<set_status_indicators(o.arg[1])>>
      [] o.name = "scancode_set_3_set_all_keys" -> <<scancode_set_3_set_all_keys(o.arg[1])>>
      [] o.name = "scancode_set_3_set_key_type" ->
            <<scancode_set_3_set_key_type(o.arg[1], o.arg[2])>>
      [] o.name = "set_typematic_rate" -> <<set_typematic_rate(o.arg[1])>>
      [] o.name = "read_id" -> <<read_id>>
      [] o.name = "echo" -> <<echo>>
      [] o.name = "set_alternate_scancode_set" ->
            <<set_alternate_scancodes(o.arg[1]), get_current_scancode_set>>

\* The commands the queue holds, the in-flight one first.
Pending(queue) == queue.current_command \o queue.commands

\* C9: a command-issuing method never panics.  It returns Ok and all of its
\* commands are in the queue behind the ones that were there, or it returns
\* NotEnoughSpaceInTheCommandQueue and has changed and sent nothing.
C9_MethodsNeverPanic ==
    [][op'.name \in Methods =>
        /\ ret' # Panic
        /\ \/ /\ ret' = [tag |-> "Ok"]
              /\ Pending([commands |-> commands', current_command |-> current_command'])
                   = Pending(Queue) \o IssuedCommands(op')
           \/ /\ ret' = NotEnoughSpaceInTheCommandQueue
              /\ UNCHANGED <<commands, current_command, state, current_decoder>>
              /\ sent' = <<>>]_vars

\* set_alternate_scancode_set put both of its commands at the back of the FIFO
\* and filled it.
C9_Witness ==
    /\ op.name = "set_alternate_scancode_set"
    /\ ret = [tag |-> "Ok"]
    /\ Len(commands) = Capacity
    /\ Len(commands) >= 2
    /\ commands[Len(commands)] = get_current_scancode_set
    /\ commands[Len(commands) - 1] = set_alternate_scancodes(op.arg[1])

\* C10: the BAT completion code always enables the session, replaces the
\* decoder by a new set 2 decoder and returns BATCompleted; the command queue
\* does not see the byte.
C10_BATCompleted ==
    [][(op'.name = "receive_data" /\ op'.arg = <<BAT_COMPLETION_CODE>>) =>
        /\ state' = "ScancodesEnabled"
        /\ current_decoder' = change_decoder("Set2")
        /\ ret' = [tag |-> "Ok", value |-> <<[event |-> "BATCompleted"]>>]
        /\ UNCHANGED <<commands, current_command>>
        /\ sent' = <<>>
        /\ decoded' = <<>>]_vars

\* BAT completion arrived while a command was in its second stage and another
\* one was queued.
C10_Witness ==
    /\ op.name = "receive_data"
    /\ op.arg = <<BAT_COMPLETION_CODE>>
    /\ ret = [tag |-> "Ok", value |-> <<[event |-> "BATCompleted"]>>]
    /\ commands # <<>>
    /\ current_command # <<>>
    /\ HasData(current_command[1])
    /\ current_command[1].state = "WaitAck2"

(***************************************************************************)
(* Properties of the keyboard session, continued.                          *)
(***************************************************************************)
KeyDetectionError == [tag |-> "Err", error |-> [kind |-> "KeyDetectionError"]]

BATCompletionFailure == [tag |-> "Err", error |-> [kind |-> "BATCompletionFailure"]]

\* The in-flight command stores the next byte it receives as raw data.
WaitsForRawByte(command) ==
    \/ command.kind = "AckResponseWithReturnTwoBytes"
       /\ command.state \in {"WaitFirstByte", "WaitSecondByte"}
    \/ command.kind = "SendCommandAndDataAndReceiveResponse"
       /\ command.state = "WaitResponse"

\* C11: receive_data returns Err(KeyDetectionError) for the bytes 0x00 and 0xFF
\* and Err(BATCompletionFailure) for the byte 0xFC whatever the state of the
\* keyboard, also while a command waits for a raw data byte; the session
\* state, the scancode decoder, the FIFO and the in-flight command stay as
\* they are, nothing is sent and nothing is decoded.
C11_SentinelErrors ==
    [][(op'.name = "receive_data" /\ op'.arg[1] \in {0, 255, 252}) =>
        /\ ret' = IF op'.arg[1] = 252 THEN BATCompletionFailure ELSE KeyDetectionError
        /\ UNCHANGED <<commands, current_command, state, current_decoder>>
        /\ sent' = <<>>
        /\ decoded' = <<>>]_vars

\* An overrun code arrived while read_id waited for its first identity byte.
C11_Witness ==
    /\ op.name = "receive_data"
    /\ op.arg = <<KEY_DETECTION_OVERRUN_SCANCODE_SET_1>>
    /\ ret = KeyDetectionError
    /\ current_command # <<>>
    /\ current_command[1].command = READ_ID
    /\ WaitsForRawByte(current_command[1])

\* read_id is in flight in the given sub-state.
ReadIdInFlight(substate) ==
    /\ current_command # <<>>
    /\ current_command[1].kind = "AckResponseWithReturnTwoBytes"
    /\ current_command[1].command = READ_ID
    /\ current_command[1].state = substate

OkNone == [tag |-> "Ok", value |-> <<>>]

\* The in-flight command finished in this step: the next one, if any, took its place.
FinishedInStep ==
    current_command' = IF commands = <<>> THEN <<>> ELSE <<Head(commands)>>

\* The answers ACK, b1, b2 to read_id for b1 and b2 among the given bytes: the
\* command stays in flight (CommandInProgress) after ACK and after b1 and
\* receive_data returns Ok(None); after b2 the command is finished and
\* receive_data returns the identity made of b1 and b2.
ReadIdAnswered(bytes) ==
    op'.name = "receive_data" =>
        LET b == op'.arg[1]
            c == current_command[1]
        IN  /\ (ReadIdInFlight("WaitAck") /\ b = ACK) =>
                /\ ret' = OkNone
                /\ current_command' = <<[c EXCEPT !.state = "WaitFirstByte"]>>
            /\ (ReadIdInFlight("WaitFirstByte") /\ b \in bytes) =>
                /\ ret' = OkNone
                /\ current_command' =
                       <<[c EXCEPT !.state = "WaitSecondByte", !.byte1 = b]>>
            /\ (ReadIdInFlight("WaitSecondByte") /\ b \in bytes) =>
                /\ ret' = [tag |-> "Ok",
                           value |-> <<[event |-> "ID", byte1 |-> c.byte1, byte2 |-> b]>>]
                /\ FinishedInStep

\* C12 as stated: with read_id in flight the answers ACK, b1, b2 give the
\* statuses CommandInProgress, CommandInProgress, CommandFinished and the
\* results Ok(None), Ok(None), Ok(Some(ID{b1, b2})), for all bytes b1 and b2.
C12_ReadIdAnyBytes == [][ReadIdAnswered(0..255)]_vars

\* C12, amended: the same for bytes b1 and b2 other than the codes 0x00, 0xFF,
\* 0xFC and 0xAA, which receive_data intercepts before the command queue; in
\* particular ACK, 0xAB, 0x83 gives ID{0xAB, 0x83}.
C12_ReadIdAnswer ==
    [][ReadIdAnswered({b \in 0..255 : ~IsSentinel(b)})]_vars

\* The identity 0xAB 0x83 was returned.
C12_Witness ==
    /\ op.name = "receive_data"
    /\ op.arg = <<131>>
    /\ ret = [tag |-> "Ok", value |-> <<[event |-> "ID", byte1 |-> 171, byte2 |-> 131]>>]

(***************************************************************************)
(* Properties of the status decoder (StatusSpec).                          *)
(***************************************************************************)
AuxiliaryDevice == <<"AuxiliaryDevice">>

KeyboardOrCommandController == <<"KeyboardOrCommandController">>

\* C13 as stated: data_availability returns exactly one of None,
\* KeyboardOrCommandController and AuxiliaryDevice, and AuxiliaryDevice
\* whenever bit 5 of the status byte is set, whatever bit 0 is.
C13_AuxiliaryWheneverBit5 ==
    op.name = "data_availability" =>
        /\ ret \in {<<>>, KeyboardOrCommandController, AuxiliaryDevice}
        /\ Bit(op.arg[1], 5) = 1 => ret = AuxiliaryDevice

\* C13, amended: data_availability returns exactly one of None,
\* KeyboardOrCommandController and AuxiliaryDevice; it returns AuxiliaryDevice
\* exactly when bit 5 and bit 0 are both set, and None when bit 5 is set and
\* bit 0 is clear.
C13_AuxiliaryWithOutputBufferFull ==
    op.name = "data_availability" =>
        /\ ret \in {<<>>, KeyboardOrCommandController, AuxiliaryDevice}
        /\ ret = AuxiliaryDevice <=> (Bit(op.arg[1], 5) = 1 /\ Bit(op.arg[1], 0) = 1)
        /\ (Bit(op.arg[1], 5) = 1 /\ Bit(op.arg[1], 0) = 0) => ret = <<>>

\* The status byte 0x20, bit 5 alone, was decoded as None.
C13_Witness ==
    /\ op = [name |-> "data_availability", arg |-> <<32>>]
    /\ ret = <<>>

\* C14: the result depends on bits 0 and 5 of the status byte only: it is the
\* result for the byte with all other bits cleared; it is AuxiliaryDevice when
\* both bits are set, KeyboardOrCommandController when bit 0 is set and bit 5
\* is clear, and None when neither bit is set.
C14_DependsOnBits0And5 ==
    op.name = "data_availability" =>
        LET bit0 == Bit(op.arg[1], 0) = 1
            bit5 == Bit(op.arg[1], 5) = 1
        IN  /\ ret = Availability(BitAnd(op.arg[1], 33))
            /\ (bit0 /\ bit5) => ret = AuxiliaryDevice
            /\ (bit0 /\ ~bit5) => ret = KeyboardOrCommandController
            /\ (~bit0 /\ ~bit5) => ret = <<>>

\* The status byte 0xFF, both bits among all others, was decoded as AuxiliaryDevice.
C14_Witness ==
    /\ op = [name |-> "data_availability", arg |-> <<255>>]
    /\ ret = AuxiliaryDevice

(***************************************************************************)
(* Properties of the controller driver (ControllerSpec).                   *)
(***************************************************************************)
\* The accesses of the last operation that are writes.
Writes == {i \in 1..Len(io) : io[i].access = "write"}

\* A read of the status register that shows the input buffer empty.
ShowsInputBufferEmpty(access) ==
    /\ access = Read("STATUS_REGISTER", access.data)
    /\ ~input_buffer_full(StatusInfo(access.data))

\* C15: in every operation each write to the data port or to the command
\* register is preceded, with no other write in between, by a read of the
\* status register in which the input-buffer-full bit was clear.
C15_WritesAfterEmptyInputBuffer ==
    \A i \in Writes :
        \E j \in 1..(i - 1) :
            /\ ShowsInputBufferEmpty(io[j])
            /\ \A k \in (j + 1)..(i - 1) : k \notin Writes

\* The bytes written by the last operation, in order.
Written == SelectSeq(io, LAMBDA a : a.access = "write")

\* The accesses of an operation to the data port and the command register.
DataAndCommands(accesses) == SelectSeq(accesses, LAMBDA a : a.port # "STATUS_REGISTER")

\* start_init has written the commands that disable the auxiliary device and
\* the keyboard interface and the command that asks for the command byte.
InitRequested ==
    Written = <<Write("COMMAND_REGISTER", 167), Write("COMMAND_REGISTER", 173),
                Write("COMMAND_REGISTER", 32)>>

\* The accesses read the answer b and write it back after the command 0x60,
\* with bits 0 and 1 clear and the other flags of the command byte as read.
ReadAndWrittenBack(accesses) ==
    /\ Len(accesses) = 3
    /\ accesses[1] = Read("DATA_PORT", accesses[1].data)
    /\ accesses[2] = Write("COMMAND_REGISTER", 96)
    /\ accesses[3] = Write("DATA_PORT", accesses[3].data)
    /\ Bit(accesses[3].data, 0) = 0
    /\ Bit(accesses[3].data, 1) = 0
    /\ \A bit \in {2, 4, 5, 6} : Bit(accesses[3].data, bit) = Bit(accesses[1].data, bit)

InitSequence ==
    /\ handle.kind = "None" =>
           /\ handle'.kind \in {"None", "InitControllerWaitInterrupt"}
           /\ handle'.kind = "InitControllerWaitInterrupt" => op'.name = "start_init"
    /\ op'.name = "start_init" => InitRequested'
    /\ handle.kind = "InitControllerWaitInterrupt" =>
           /\ InitRequested
           /\ handle'.kind \in {"InitControllerWaitInterrupt", "DevicesDisabled"}
           /\ handle'.kind = "DevicesDisabled" =>
                  /\ op'.name \in {"interrupt_received", "poll_data"}
                  /\ ReadAndWrittenBack(DataAndCommands(io'))
                  /\ io'[Len(io')] = Write("DATA_PORT", port_io'.command_byte)
                  /\ ~contains(port_io'.command_byte, ENABLE_KEYBOARD_INTERRUPT)
                  /\ ~contains(port_io'.command_byte, ENABLE_AUXILIARY_INTERRUPT)

\* C16: start_init followed by interrupt_received or poll_data writes 0xA7,
\* 0xAD and 0x20 to the command register, reads the answer from the data
\* port, writes 0x60 and the byte with bits 0 and 1 cleared, and only then
\* yields DevicesDisabled: no DevicesDisabled handle exists before the
\* write-back.
C16_InitSequence == [][InitSequence]_vars

\* interrupt_received has read 0x77 and written back 0x74.
C16_Witness ==
    /\ op.name = "interrupt_received"
    /\ handle = DevicesDisabled
    /\ DataAndCommands(io) = <<Read("DATA_PORT", 119), Write("COMMAND_REGISTER", 96),
                               Write("DATA_PORT", 116)>>

\* self_test returned Ok and left the controller with the command byte it had.
SelfTestPreservesCommandByte ==
    (op'.name = "self_test" /\ ret'.tag = "Ok") =>
        port_io'.command_byte = port_io.command_byte

\* C18: self_test saves the command byte before SELF_TEST and restores it
\* afterwards: when the self-test returns 0x55 the command byte after
\* self_test() is the one before it, also when the controller resets its
\* command byte during the self-test.
C18_SelfTestRestoresCommandByte == [][SelfTestPreservesCommandByte]_vars

\* The controller has both device interfaces disabled and both interrupts off.
DevicesAndInterruptsOff ==
    /\ contains(port_io.command_byte, DISABLE_KEYBOARD)
    /\ contains(port_io.command_byte, DISABLE_AUXILIARY_DEVICE)
    /\ ~contains(port_io.command_byte, ENABLE_KEYBOARD_INTERRUPT)
    /\ ~contains(port_io.command_byte, ENABLE_AUXILIARY_INTERRUPT)

\* C17: whenever the live handle is DevicesDisabled the controller has both
\* device interfaces disabled and both interrupt-enable bits of its command
\* byte clear, after any sequence of init, enable, disable,
\* scancode_translation, test and RAM operations.
C17_DevicesDisabledMeansOff ==
    handle.kind = "DevicesDisabled" => DevicesAndInterruptsOff

\* The names of the six enable_* methods.
EnableNames ==
    {"enable_keyboard", "enable_auxiliary_device", "enable_keyboard_and_auxiliary_device",
     "enable_keyboard_and_interrupts", "enable_auxiliary_device_and_interrupts",
     "enable_keyboard_and_auxiliary_device_and_interrupts"}

\* The bytes the accesses read from the data port in answer to the command.
AnswersTo(accesses, command) ==
    {accesses[i].data : i \in
        {i \in 1..Len(accesses) :
            /\ accesses[i] = Read("DATA_PORT", accesses[i].data)
            /\ \E j \in 1..(i - 1) :
                   /\ accesses[j] = Write("COMMAND_REGISTER", command)
                   /\ \A k \in (j + 1)..(i - 1) : accesses[k].port = "STATUS_REGISTER"}}

\* The commands written by the accesses.
CommandsOf(accesses) ==
    {accesses[i].data : i \in {i \in 1..Len(accesses) :
                                  accesses[i] = Write("COMMAND_REGISTER", accesses[i].data)}}

\* The error of one device interface for the answer of its test.
DeviceError(answer) ==
    IF answer = 2 THEN [kind |-> "ClockLineHigh"] ELSE from_test_result(answer).error

\* The error an enable_* method returns for the answers of the tests.
ErrorOf(name, keyboard, auxiliary) ==
    IF name \in {"enable_keyboard", "enable_keyboard_and_interrupts"}
    THEN {DeviceError(b) : b \in keyboard}
    ELSE IF name \in {"enable_auxiliary_device", "enable_auxiliary_device_and_interrupts"}
    THEN {DeviceError(b) : b \in auxiliary}
    ELSE IF keyboard # {0}
    THEN {[kind |-> "Keyboard", error |-> DeviceError(b)] : b \in keyboard}
    ELSE {[kind |-> "AuxiliaryDevice", error |-> DeviceError(b)] : b \in auxiliary}

\* An enable_* method whose interface test failed gives the handle back.
FailedTestLeavesDevicesDisabled ==
    LET keyboard == AnswersTo(io', 171)
        auxiliary == AnswersTo(io', 169)
    IN  (op'.name \in EnableNames /\ (keyboard \cup auxiliary) \ {0} # {}) =>
            /\ handle' = DevicesDisabled
            /\ ret'.tag = "Err"
            /\ {ret'.error} = ErrorOf(op'.name, keyboard, auxiliary)
            /\ CommandsOf(io') \cap {174, 168, 96} = {}
            /\ port_io'.command_byte = port_io.command_byte
            /\ port_io'.ram = port_io.ram

\* Every operation of DevicesDisabled can be called and returns.
DevicesDisabledAvailable ==
    /\ handle = DevicesDisabled
    /\ ENABLED ScancodeTranslation
    /\ ENABLED KeyboardInterfaceTest
    /\ ENABLED AuxiliaryDeviceInterfaceTest
    /\ ENABLED SelfTest
    /\ ENABLED Ram
    /\ ENABLED WriteRam
    /\ ENABLED EnableKeyboard
    /\ ENABLED EnableAuxiliaryDevice
    /\ ENABLED EnableKeyboardAndAuxiliaryDevice
    /\ ENABLED EnableKeyboardAndInterrupts
    /\ ENABLED EnableAuxiliaryDeviceAndInterrupts
    /\ ENABLED EnableKeyboardAndAuxiliaryDeviceAndInterrupts

\* C19: when an interface test run by an enable_* transition returns a
\* non-zero byte, the transition returns the DevicesDisabled handle with the
\* typed error (byte 2 gives ClockLineHigh), no enable-interface command (0xAE,
\* 0xA8) and no command byte write (0x60) has been issued, and every
\* DevicesDisabled operation is available on the returned handle.
C19_FailedTestNoPartialState ==
    /\ [][FailedTestLeavesDevicesDisabled]_vars
    /\ []((op.name \in EnableNames /\ ret.tag = "Err") => DevicesDisabledAvailable)

\* Enabling both devices with interrupts failed on the keyboard clock line.
C19_Witness ==
    /\ op.name = "enable_keyboard_and_auxiliary_device_and_interrupts"
    /\ handle = DevicesDisabled
    /\ ret = [tag |-> "Err",
              error |-> [kind |-> "Keyboard", error |-> [kind |-> "ClockLineHigh"]]]

\* The devices an enable_* method selects, and whether it asks for interrupts.
Selector(name) ==
    CASE name \in {"enable_keyboard", "enable_keyboard_and_interrupts"} -> "Keyboard"
      [] name \in {"enable_auxiliary_device", "enable_auxiliary_device_and_interrupts"} ->
            "AuxiliaryDevice"
      [] OTHER -> "KeyboardAndAuxiliaryDevice"

WithInterrupts(name) ==
    name \in {"enable_keyboard_and_interrupts", "enable_auxiliary_device_and_interrupts",
              "enable_keyboard_and_auxiliary_device_and_interrupts"}

\* The commands written by the accesses, in order.
CommandSeq(accesses) ==
    LET written == SelectSeq(accesses, LAMBDA a : a.port = "COMMAND_REGISTER")
    IN  [i \in 1..Len(written) |-> written[i].data]

\* The bytes written to the data port by the accesses, in order.
DataSeq(accesses) ==
    LET written == SelectSeq(accesses,
                             LAMBDA a : a.port = "DATA_PORT" /\ a.access = "write")
    IN  [i \in 1..Len(written) |-> written[i].data]

\* The test and enable commands for the devices.
TestCommands(devices) ==
    CASE devices = "Keyboard" -> <<171>>
      [] devices = "AuxiliaryDevice" -> <<169>>
      [] OTHER -> <<171, 169>>

EnableCommands(devices) ==
    CASE devices = "Keyboard" -> <<174>>
      [] devices = "AuxiliaryDevice" -> <<168>>
      [] OTHER -> <<174, 168>>

\* The interrupt-enable bits of the devices.
InterruptBits(devices) ==
    CASE devices = "Keyboard" -> {0}
      [] devices = "AuxiliaryDevice" -> {1}
      [] OTHER -> {0, 1}

\* An enable_* method whose tests passed enables what its selector names.
PassedTestEnablesSelected ==
    LET devices == Selector(op'.name)
        tested == AnswersTo(io', 171) \cup AnswersTo(io', 169)
        read == AnswersTo(io', 32)
    IN  (op'.name \in EnableNames /\ tested = {0}) =>
            /\ ret' = [tag |-> "Ok"]
            /\ handle' = EnabledDevices(devices, WithInterrupts(op'.name))
            /\ ~WithInterrupts(op'.name) =>
                   /\ CommandSeq(io') = TestCommands(devices) \o EnableCommands(devices)
                   /\ DataSeq(io') = <<>>
            /\ WithInterrupts(op'.name) =>
                   /\ CommandSeq(io') =
                          TestCommands(devices) \o EnableCommands(devices) \o <<32, 96>>
                   /\ Len(DataSeq(io')) = 1
                   /\ \E b \in read :
                          /\ read = {b}
                          /\ \A bit \in InterruptBits(devices) : Bit(DataSeq(io')[1], bit) = 1
                          /\ \A bit \in {0, 1, 2, 4, 5, 6} \ InterruptBits(devices) :
                                 Bit(DataSeq(io')[1], bit) = Bit(b, bit)
                   /\ port_io'.command_byte = DataSeq(io')[1]
            /\ \A bit \in {0, 1} : Bit(port_io'.command_byte, bit) = 1 =>
                   \/ Bit(port_io.command_byte, bit) = 1
                   \/ WithInterrupts(op'.name) /\ bit \in InterruptBits(devices)

\* C20: when the interface tests of the selected devices return 0, an enable_*
\* transition with selector S writes exactly the enable commands for S (0xAE
\* for the keyboard, 0xA8 for the auxiliary device, the keyboard first); if and
\* only if interrupts were requested it then reads the command byte, sets
\* exactly the interrupt-enable bits of S and writes it back; without
\* interrupts it neither reads nor writes the command byte.
C20_EnableSelected == [][PassedTestEnablesSelected]_vars

\* The keyboard was enabled with its interrupt, the auxiliary interrupt is off.
C20_Witness ==
    /\ op.name = "enable_keyboard_and_interrupts"
    /\ ret = [tag |-> "Ok"]
    /\ handle = EnabledDevices("Keyboard", TRUE)
    /\ contains(port_io.command_byte, ENABLE_KEYBOARD_INTERRUPT)
    /\ ~contains(port_io.command_byte, ENABLE_AUXILIARY_INTERRUPT)

\* What the two send methods do on the handles that have them.
SendsByCapability ==
    /\ op'.name = "send_to_keyboard" =>
           /\ handle.kind = "EnabledDevices"
           /\ handle.keyboard
           /\ handle' = handle
           /\ ret' = Unit
           /\ port_io.expects.target = "keyboard"
           /\ io' = <<Write("DATA_PORT", op'.arg[1])>>
    /\ op'.name = "send_to_auxiliary_device" =>
           /\ handle.kind = "EnabledDevices"
           /\ handle.auxiliary
           /\ handle' = handle
           /\ DataAndCommands(io') = <<Write("COMMAND_REGISTER", 212),
                                       Write("DATA_PORT", op'.arg[1])>>
    /\ (handle.kind = "EnabledDevices" /\ ~handle.auxiliary) =>
           212 \notin CommandsOf(io')
    /\ op'.name = "enable_keyboard" /\ ret'.tag = "Ok" =>
           handle' = [kind |-> "EnabledDevices", keyboard |-> TRUE,
                      auxiliary |-> FALSE, interrupts |-> FALSE]
    /\ op'.name = "enable_auxiliary_device" /\ ret'.tag = "Ok" =>
           handle' = [kind |-> "EnabledDevices", keyboard |-> FALSE,
                      auxiliary |-> TRUE, interrupts |-> FALSE]

\* The send methods a handle has are those of its enabled devices.
SendsAvailable ==
    handle.kind = "EnabledDevices" =>
        /\ handle.keyboard <=> ENABLED SendToKeyboard
        /\ handle.auxiliary <=> ENABLED SendToAuxiliaryDevice

\* C21: on a handle enabled for the keyboard only, send_to_keyboard succeeds
\* and writes the byte to the data port for the keyboard, while
\* send_to_auxiliary_device is not accepted and writes neither 0xD4 nor the
\* byte; a handle enabled for the auxiliary device only does not accept
\* send_to_keyboard.
C21_SendOnlyToEnabledDevice == [][SendsByCapability]_vars /\ []SendsAvailable

\* A byte was sent to the keyboard on a handle without the auxiliary device.
C21_Witness ==
    /\ op = [name |-> "send_to_keyboard", arg |-> <<244>>]
    /\ handle = [kind |-> "EnabledDevices", keyboard |-> TRUE,
                 auxiliary |-> FALSE, interrupts |-> FALSE]
    /\ io = <<Write("DATA_PORT", 244)>>

\* The two ways of disable_devices.
DisablesByInterrupts ==
    /\ (op'.name = "disable_devices" /\ handle.interrupts) =>
           /\ handle' = InitControllerWaitInterrupt
           /\ CommandSeq(io') = <<167, 173, 32>>
           /\ DataSeq(io') = <<>>
    /\ (handle.kind = "InitControllerWaitInterrupt" /\ handle' # handle) =>
           /\ handle' = DevicesDisabled
           /\ ReadAndWrittenBack(DataAndCommands(io'))
           /\ port_io'.command_byte = DataSeq(io')[1]
    /\ (op'.name = "disable_devices" /\ ~handle.interrupts) =>
           /\ handle' = DevicesDisabled
           /\ DataAndCommands(io') = <<Write("COMMAND_REGISTER", 167),
                                       Write("COMMAND_REGISTER", 173)>>
    /\ (handle.kind = "EnabledDevices" /\ handle'.kind = "DevicesDisabled") =>
           ~handle.interrupts

\* C22: disable_devices on a handle with interrupts goes through the init
\* sequence (0xA7, 0xAD, 0x20, then the command byte written back with bits 0
\* and 1 clear) and reaches DevicesDisabled only after the write-back;
\* disable_devices on a handle without interrupts writes 0xA7 and 0xAD only and
\* yields DevicesDisabled without reading or writing the command byte.
C22_DisableByInterrupts == [][DisablesByInterrupts]_vars

\* disable_devices of a handle with interrupts has asked for the command byte.
C22_Witness ==
    /\ op.name = "disable_devices"
    /\ handle = InitControllerWaitInterrupt
    /\ CommandSeq(io) = <<167, 173, 32>>

\* disable_devices of a handle with interrupts, the completion of the init by
\* polling, and enable_keyboard_and_auxiliary_device_and_interrupts with
\* passing tests, on the controller c.
DisableAndEnableAgain(c, delay) ==
    Then(start_init(c, delay, NoAnswer), LAMBDA d :
        Then(poll_data(Ports(d.port_io), delay, NoAnswer), LAMBDA i :
            enable_devices(Ports(i.port_io), "KeyboardAndAuxiliaryDevice", TRUE,
                           delay, NoAnswer)))

\* The cycle gives the handle and the command byte it started with.
SameAfter(c, r) ==
    /\ ~r.hang
    /\ r.value = [tag |-> "Ok", handle |-> handle]
    /\ r.port_io.command_byte = c.command_byte
    /\ ~contains(r.port_io.command_byte, DISABLE_KEYBOARD)
    /\ ~contains(r.port_io.command_byte, DISABLE_AUXILIARY_DEVICE)
    /\ contains(r.port_io.command_byte, ENABLE_KEYBOARD_INTERRUPT)
    /\ contains(r.port_io.command_byte, ENABLE_AUXILIARY_INTERRUPT)

\* C23: from a handle with keyboard, auxiliary device and interrupts enabled,
\* disable_devices, the completed init and the same enable again give a handle
\* with the same capabilities and the same command byte (interfaces enabled,
\* both interrupt bits set, the other flags as they were), and so does the
\* cycle repeated.
C23_EnableDisableRoundTrip ==
    handle = EnabledDevices("KeyboardAndAuxiliaryDevice", TRUE) =>
        \A delay \in 0..MaxBusy, again \in 0..MaxBusy :
            \E once \in {DisableAndEnableAgain(port_io, delay)} :
                /\ SameAfter(port_io, once)
                /\ SameAfter(port_io, DisableAndEnableAgain(once.port_io, again))

\* Keyboard, auxiliary device and interrupts were enabled with scancode
\* translation on.
C23_Witness ==
    /\ op.name = "enable_keyboard_and_auxiliary_device_and_interrupts"
    /\ handle = EnabledDevices("KeyboardAndAuxiliaryDevice", TRUE)
    /\ contains(port_io.command_byte, KEYBOARD_TRANSLATE_MODE)
    /\ SameAfter(port_io, DisableAndEnableAgain(port_io, 0))

\* The operations that read the command byte, change it and write it back, and
\* the bits each of them is to change.
Rewrites ==
    \/ op'.name \in {"interrupt_received", "poll_data", "scancode_translation"}
    \/ op'.name \in EnableNames /\ WithInterrupts(op'.name) /\ ret'.tag = "Ok"

TargetedBits ==
    CASE op'.name \in {"interrupt_received", "poll_data"} -> {0, 1}
      [] op'.name = "scancode_translation" -> {6}
      [] OTHER -> InterruptBits(Selector(op'.name))

\* The command byte the operation has read: the first byte read when the
\* init is completed, the answer to the command 0x20 otherwise.
CommandByteRead ==
    IF op'.name \in {"interrupt_received", "poll_data"}
    THEN {DataAndCommands(io')[1].data}
    ELSE AnswersTo(io', 32)

\* The operation writes one byte after the command 0x60, with the bits of
\* kept that are not targeted as in the byte read.
RewritesKeeping(kept) ==
    Rewrites =>
        /\ Cardinality(CommandByteRead) = 1
        /\ Len(DataSeq(io')) = 1
        /\ Last([io |-> DataAndCommands(io')]) = DataSeq(io')[1]
        /\ DataAndCommands(io')[Len(DataAndCommands(io')) - 1] = Write("COMMAND_REGISTER", 96)
        /\ \A read \in CommandByteRead :
               \A bit \in kept \ TargetedBits :
                   Bit(DataSeq(io')[1], bit) = Bit(read, bit)

\* The bits that ControllerCommandByte does not name are written as zero.
UnnamedBitsCleared ==
    Rewrites => Bit(DataSeq(io')[1], 3) = 0 /\ Bit(DataSeq(io')[1], 7) = 0

\* C24 as stated: every read-modify-write of the command byte writes back the
\* byte read with only the targeted bits changed, all eight bits considered.
C24_AllOtherBitsUnchanged == [][RewritesKeeping(0..7)]_vars

\* C24: every read-modify-write of the command byte (init, scancode_translation,
\* enable with interrupts) writes back one byte in which the flags of
\* ControllerCommandByte (bits 0, 1, 2, 4, 5, 6) other than the targeted ones
\* are as in the byte read, and bits 3 and 7 are zero whatever was read.
C24_NamedFlagsUnchanged ==
    [][RewritesKeeping({0, 1, 2, 4, 5, 6}) /\ UnnamedBitsCleared]_vars

\* The init is completed with a command byte read that has bit 3 set.
C24_Witness ==
    /\ op.name = "poll_data"
    /\ handle = DevicesDisabled
    /\ DataAndCommands(io) = <<Read("DATA_PORT", 60), Write("COMMAND_REGISTER", 96),
                               Write("DATA_PORT", 52)>>

\* The operations of ControllerSpec made of calls of
\* send_controller_command_and_wait_response, and the commands they send with
\* it.
WaitResponseNames ==
    EnableNames \cup {"keyboard_interface_test", "auxiliary_device_interface_test",
                      "self_test", "scancode_translation"}

WaitResponseCommands == {32, 169, 170, 171}

\* The command written by access j follows a status read with the input buffer
\* empty, and after it a status read shows the input buffer empty before the
\* data port is read.
WaitedBeforeAndAfter(accesses, j) ==
    /\ j > 1
    /\ ShowsInputBufferEmpty(accesses[j - 1])
    /\ \E k \in (j + 1)..Len(accesses) :
           /\ ShowsInputBufferEmpty(accesses[k])
           /\ \A i \in (j + 1)..k : accesses[i].port = "STATUS_REGISTER"

\* C25: in send_controller_command_and_wait_response the command is written
\* only after a status read has shown the input buffer empty, and after the
\* write a status read shows the input buffer empty again before the response
\* is polled and read.
C25_WaitsBeforeAndAfterCommand ==
    [][op'.name \in WaitResponseNames =>
           \A j \in 1..Len(io') :
               (io'[j].port = "COMMAND_REGISTER" /\ io'[j].data \in WaitResponseCommands)
                   => WaitedBeforeAndAfter(io', j)]_vars

\* The status read reports a byte of the keyboard or of the controller.
ShowsControllerData(access) ==
    /\ access = Read("STATUS_REGISTER", access.data)
    /\ data_availability(StatusInfo(access.data)) = KeyboardOrCommandController

\* The response to the command written by access j is read right after a
\* status read that reports a byte of the controller.
ResponseReadAfterControllerStatus(accesses, j) ==
    \E i \in (j + 2)..Len(accesses) :
        /\ accesses[i] = Read("DATA_PORT", accesses[i].data)
        /\ ShowsControllerData(accesses[i - 1])
        /\ \A k \in (j + 1)..(i - 1) : accesses[k].port = "STATUS_REGISTER"

\* The operations that start with one call of
\* send_controller_command_and_wait_response.
StartsWithWaitResponse ==
    op'.name \in {"keyboard_interface_test", "auxiliary_device_interface_test",
                  "self_test", "scancode_translation"}

\* The accesses before the first command written.
BeforeCommand(accesses) ==
    SubSeq(accesses, 1,
           CHOOSE j \in 1..Len(accesses) :
               /\ accesses[j].port = "COMMAND_REGISTER"
               /\ \A k \in 1..(j - 1) : accesses[k].port # "COMMAND_REGISTER")

\* A byte that was there is read once, right after the first status read, and
\* nothing is read when there was none.
StaleDiscardedOnce(before) ==
    /\ before[1] = Read("STATUS_REGISTER", StatusByte(port_io))
    /\ DataAndCommands(before) =
           (IF port_io.output # <<>>
            THEN <<Read("DATA_PORT", port_io.output[1].data)>> ELSE <<>>)
           \o <<before[Len(before)]>>
    /\ port_io.output # <<>> => before[2] = Read("DATA_PORT", port_io.output[1].data)

DiscardsAndReadsResponse ==
    /\ StartsWithWaitResponse => StaleDiscardedOnce(BeforeCommand(io'))
    /\ op'.name \in WaitResponseNames =>
           \A j \in 1..Len(io') :
               (io'[j].port = "COMMAND_REGISTER" /\ io'[j].data \in WaitResponseCommands)
                   => ResponseReadAfterControllerStatus(io', j)
    /\ op'.name \in {"keyboard_interface_test", "auxiliary_device_interface_test"} =>
           ret' = from_test_result(io'[Len(io')].data)

ControllerDataReported ==
    data_availability(StatusInfo(StatusByte(port_io))) = KeyboardOrCommandController

\* While no such byte is reported the call stays in its poll loop and reads
\* nothing but the status; it returns only by reading the data port, after
\* the status read that reported the byte.
SpinsWhileUnanswered ==
    /\ (pc = "poll" /\ ~ControllerDataReported) =>
           /\ pc' = "poll"
           /\ io' = io \/ io' = <<Read("STATUS_REGISTER", StatusByte(port_io))>>
    /\ pc' = "done" =>
           /\ pc \in {"read", "done"}
           /\ pc = "read" => ShowsControllerData(io[1])
    /\ (pc = "poll" /\ pc' = "read") => ShowsControllerData(io'[1])

\* C27: send_controller_command_and_wait_response has no timeout.  It returns
\* if the controller always empties a full input buffer in the end and a byte
\* owned by the controller is reported in the end whenever the call polls for
\* the response; while no such byte is reported, also while the status
\* reports a byte of the auxiliary device, it stays in the poll loop and
\* makes status reads only.
C27_NoTimeout ==
    /\ ((port_io.input_buffer_full ~> ~port_io.input_buffer_full)
        /\ (pc = "poll" ~> ControllerDataReported))
           => <>(pc = "done")
    /\ [][SpinsWhileUnanswered]_vars
    /\ [](pc = "poll" => ENABLED PollResponse)

\* The call polls while the status reports a byte of the auxiliary device.
C27_Witness ==
    /\ pc = "poll"
    /\ io = <<Read("STATUS_REGISTER", 33)>>
    /\ ~ControllerDataReported

(***************************************************************************)
(* Further properties of the controller driver (ControllerSpec).           *)
(***************************************************************************)
\* The controller as it is when access j of the accesses is made, after the
\* writes before it.
RECURSIVE ControllerBefore(_, _, _)
ControllerBefore(controller, accesses, j) ==
    IF j = 1 THEN controller
    ELSE Then(ControllerBefore(controller, accesses, j - 1), LAMBDA c :
             IF accesses[j - 1].access # "write" THEN c
             ELSE IF accesses[j - 1].port = "COMMAND_REGISTER"
             THEN WriteCommand(c, accesses[j - 1].data, NoAnswer)
             ELSE WriteData(c, accesses[j - 1].data))

\* Both device interfaces are disabled and both interrupts are off.
AllOff(command_byte) ==
    /\ contains(command_byte, DISABLE_KEYBOARD)
    /\ contains(command_byte, DISABLE_AUXILIARY_DEVICE)
    /\ ~contains(command_byte, ENABLE_KEYBOARD_INTERRUPT)
    /\ ~contains(command_byte, ENABLE_AUXILIARY_INTERRUPT)

\* C28: every command that reads a byte of the controller RAM or the command
\* byte (0x20 to 0x3F) is written while both device interfaces are disabled
\* and both interrupt-enable bits are clear, in every operation.
C28_ReadsOnlyWhileAllOff ==
    [][\A j \in 1..Len(io') :
           (/\ io'[j].port = "COMMAND_REGISTER"
            /\ io'[j].data \in READ_CONTROLLER_COMMAND_BYTE..READ_RAM_END
            /\ io' # io)
               => AllOff(ControllerBefore(port_io, io', j).command_byte)]_vars

(***************************************************************************)
(* Properties of the interface test results (TestResultSpec).             *)
(***************************************************************************)
\* The errors named for the answers 1 to 4.
NamedTestErrors ==
    <<"ClockLineLow", "ClockLineHigh", "DataLineLow", "DataLineHigh">>

\* The result of an interface test for the byte the controller answered.
TestResultFor(byte) ==
    IF byte = 0 THEN [tag |-> "Ok"]
    ELSE IF byte \in 1..4
    THEN [tag |-> "Err", error |-> [kind |-> NamedTestErrors[byte]]]
    ELSE [tag |-> "Err", error |-> [kind |-> "UnknownValue", value |-> byte]]

\* C29: the result of the keyboard and auxiliary interface tests is, for every
\* byte the controller answers, Ok for 0, ClockLineLow for 1, ClockLineHigh
\* for 2, DataLineLow for 3, DataLineHigh for 4 and UnknownValue(v) for every
\* other byte v.
C29_TestResultMapping ==
    op.name = "from_test_result" => ret = TestResultFor(op.arg[1])

\* The test was answered 2.
C29_Witness ==
    /\ op = [name |-> "from_test_result", arg |-> <<2>>]
    /\ ret = [tag |-> "Err", error |-> [kind |-> "ClockLineHigh"]]

(***************************************************************************)
(* Further properties of the command queue (QueueSpec).                    *)
(***************************************************************************)
\* receive_data was called while an AckResponse or an Echo command was in
\* flight.
ReceivedBySingleStage ==
    /\ op'.name = "receive_data"
    /\ current_command # <<>>
    /\ current_command[1].kind \in {"AckResponse", "Echo"}

\* C30: for an AckResponse or Echo command in flight, the confirmation byte
\* (ACK for AckResponse, 0xEE for Echo) gives CommandFinished with the command;
\* any byte other than the confirmation byte and RESEND gives
\* UnexpectedData(byte), leaves the same command in flight, sends nothing and
\* leaves the FIFO as it is.
C30_ConfirmationOrUnexpected ==
    [][ReceivedBySingleStage =>
           /\ op'.arg[1] = Confirmation(current_command[1]) =>
                  ret' = <<CommandFinished(current_command[1])>>
           /\ op'.arg[1] \notin {Confirmation(current_command[1]), RESEND} =>
                  /\ ret' = <<UnexpectedData(op'.arg[1])>>
                  /\ current_command' = current_command
                  /\ commands' = commands
                  /\ sent' = <<>>]_vars

\* ACK arrived for an Echo command while another command was queued.
C30_Witness ==
    /\ op = [name |-> "receive_data", arg |-> <<ACK>>]
    /\ ret = <<UnexpectedData(ACK)>>
    /\ current_command = <<echo>>
    /\ commands # <<>>
    /\ sent = <<>>

\* receive_data was called while a command of the kind was in flight in the
\* sub-state.
ReceivedIn(kind, substate) ==
    /\ op'.name = "receive_data"
    /\ current_command # <<>>
    /\ current_command[1].kind = kind
    /\ current_command[1].state = substate

\* What is sent when the command in flight finishes: the command byte of the
\* next command of the FIFO, which is started, and nothing of the command
\* that finished.
SentByNextCommand == IF commands = <<>> THEN <<>> ELSE <<commands[1].command>>

TwoBytesAfterAck ==
    /\ (ReceivedIn("AckResponseWithReturnTwoBytes", "WaitAck") /\ op'.arg = <<ACK>>) =>
           /\ current_command' = <<[current_command[1] EXCEPT !.state = "WaitFirstByte"]>>
           /\ ret' = <<CommandInProgress>>
           /\ sent' = <<>>
    /\ ReceivedIn("AckResponseWithReturnTwoBytes", "WaitFirstByte") =>
           /\ current_command' = <<[current_command[1] EXCEPT
                                       !.state = "WaitSecondByte",
                                       !.byte1 = op'.arg[1]]>>
           /\ ret' = <<CommandInProgress>>
           /\ sent' = <<>>
           /\ commands' = commands
    /\ ReceivedIn("AckResponseWithReturnTwoBytes", "WaitSecondByte") =>
           /\ ret' = <<CommandFinished([current_command[1] EXCEPT !.byte2 = op'.arg[1]])>>
           /\ CommandChecker_receive_data(current_command, op'.arg[1], <<>>).device = <<>>
           /\ sent' = SentByNextCommand
    /\ (op'.name = "receive_data" /\ IsFinished(ret')
        /\ ret'[1].command.kind = "AckResponseWithReturnTwoBytes") =>
           ReceivedIn("AckResponseWithReturnTwoBytes", "WaitSecondByte")

\* C31: an AckResponseWithReturnTwoBytes command handles RESEND in WaitAck
\* only: in WaitFirstByte and WaitSecondByte every byte, ACK and RESEND
\* included, is stored as byte1 and byte2, moves the command one sub-state on
\* and makes the command send nothing; the command finishes with the second
\* byte after the ACK and not before.
C31_TwoBytesStoredVerbatim == [][TwoBytesAfterAck]_vars

\* RESEND arrived as the second byte of the answer and finished the command.
C31_Witness ==
    /\ op = [name |-> "receive_data", arg |-> <<RESEND>>]
    /\ IsFinished(ret)
    /\ ret[1].command.kind = "AckResponseWithReturnTwoBytes"
    /\ ret[1].command.byte1 = ACK
    /\ ret[1].command.byte2 = RESEND
    /\ sent = <<>>

PayloadAfterAck ==
    /\ ReceivedIn("SendCommandAndData", "WaitAck1") =>
           IF op'.arg = <<ACK>>
           THEN /\ current_command' = <<[current_command[1] EXCEPT !.state = "WaitAck2"]>>
                /\ sent' = <<current_command[1].data>>
                /\ ret' = <<CommandInProgress>>
           ELSE /\ current_command' = current_command
                /\ sent' = IF op'.arg = <<RESEND>>
                           THEN <<current_command[1].command>> ELSE <<>>
    /\ ReceivedIn("SendCommandAndData", "WaitAck2") =>
           CASE op'.arg = <<ACK>> ->
                    /\ ret' = <<CommandFinished(current_command[1])>>
                    /\ sent' = SentByNextCommand
             [] op'.arg = <<RESEND>> ->
                    /\ current_command' = current_command
                    /\ sent' = <<current_command[1].data>>
             [] OTHER ->
                    /\ current_command' = current_command
                    /\ ret' = <<UnexpectedData(op'.arg[1])>>
                    /\ sent' = <<>>
    /\ (op'.name = "receive_data" /\ IsFinished(ret')
        /\ ret'[1].command.kind = "SendCommandAndData") =>
           ReceivedIn("SendCommandAndData", "WaitAck2") /\ op'.arg = <<ACK>>
    /\ (op'.name = "add" /\ op'.arg[1].kind = "SendCommandAndData") =>
           /\ op'.arg[1].state = "WaitAck1"
           /\ sent' \in {<<>>, <<op'.arg[1].command>>}

\* C32: the payload of a SendCommandAndData command is written to the device
\* only when an ACK arrives in WaitAck1 (once, with the step to WaitAck2) and
\* when RESEND arrives in WaitAck2 (once each); starting the command and every
\* other byte in WaitAck1 write no payload, and the command finishes only with
\* an ACK in WaitAck2.
C32_PayloadAfterAck == [][PayloadAfterAck]_vars

\* The command byte was acknowledged and the payload written.
C32_Witness ==
    /\ op = [name |-> "receive_data", arg |-> <<ACK>>]
    /\ current_command # <<>>
    /\ current_command[1].kind = "SendCommandAndData"
    /\ current_command[1].state = "WaitAck2"
    /\ sent = <<current_command[1].data>>
    /\ ret = <<CommandInProgress>>

(***************************************************************************)
(* Further properties of the keyboard session (Spec, SelectionSpec).       *)
(***************************************************************************)
\* What Keyboard::receive_data returns for the result of the decoder.
KeyResult(result) ==
    IF result.tag = "Err"
    THEN [tag |-> "Err", error |-> [kind |-> "ScancodeParsingError"]]
    ELSE IF result.value = <<>> THEN [tag |-> "Ok", value |-> <<>>]
    ELSE [tag |-> "Ok", value |-> <<[event |-> "Key"]>>]

\* The byte, and nothing else, was given to the scancode decoder, and the
\* call returned what the decoder made of it.
DecodedOnce(byte) ==
    /\ decoded' = <<byte>>
    /\ \E outcome \in DecodeOutcomes :
           /\ current_decoder' = decode(current_decoder, byte, outcome).decoder
           /\ ret' = KeyResult(decode(current_decoder, byte, outcome).result)

\* The command with the byte captured.
Captured(command, byte) ==
    [command EXCEPT !.scancode_received_after_this_command = byte]

LeftoverScancode ==
    (/\ op'.name = "receive_data"
     /\ current_command # <<>>
     /\ current_command[1].kind = "SendCommandAndDataSingleAck"
     /\ current_command[1].state = "WaitAck2") =>
        /\ \A byte \in (0..255) \ {RESEND} :
               CommandChecker_receive_data(current_command, byte, <<>>) =
                   [current_command |-> <<>>, device |-> <<>>,
                    result |-> <<CommandFinished(Captured(current_command[1], byte))>>]
        /\ (op'.arg # <<RESEND>> /\ ~IsSentinel(op'.arg[1])) =>
               /\ DecodedOnce(op'.arg[1])
               /\ current_command' # current_command
               /\ sent' = SentByNextCommand

\* C33: a SendCommandAndDataSingleAck command in WaitAck2 is finished by the
\* next byte of any value but RESEND, ACK included, and the byte is captured
\* as scancode_received_after_this_command; Keyboard::receive_data gives that
\* byte, once, to the scancode decoder and returns the result of the decoder.
C33_LeftoverScancodeDecoded == [][LeftoverScancode]_vars

\* An ACK arrived in WaitAck2, finished the command, so that the next one was
\* started, and was decoded as a scancode.
C33_Witness ==
    /\ op = [name |-> "receive_data", arg |-> <<ACK>>]
    /\ decoded = <<ACK>>
    /\ current_command # <<>>
    /\ sent = <<current_command[1].command>>
    /\ ret = [tag |-> "Ok", value |-> <<[event |-> "Key"]>>]

(***************************************************************************)
(* Further properties of the command queue (QueueSpec), continued.         *)
(***************************************************************************)
ResponseAfterTwoAcks ==
    /\ ReceivedIn("SendCommandAndDataAndReceiveResponse", "WaitAck1") =>
           IF op'.arg = <<ACK>>
           THEN /\ current_command' = <<[current_command[1] EXCEPT !.state = "WaitAck2"]>>
                /\ sent' = <<current_command[1].data>>
           ELSE /\ current_command' = current_command
                /\ sent' = IF op'.arg = <<RESEND>>
                           THEN <<current_command[1].command>> ELSE <<>>
    /\ ReceivedIn("SendCommandAndDataAndReceiveResponse", "WaitAck2") =>
           IF op'.arg = <<ACK>>
           THEN /\ current_command' = <<[current_command[1] EXCEPT !.state = "WaitResponse"]>>
                /\ sent' = <<>>
                /\ ret' = <<CommandInProgress>>
           ELSE /\ current_command' = current_command
                /\ sent' = IF op'.arg = <<RESEND>>
                           THEN <<current_command[1].data>> ELSE <<>>
    /\ ReceivedIn("SendCommandAndDataAndReceiveResponse", "WaitResponse") =>
           /\ ret' = <<CommandFinished([current_command[1] EXCEPT !.response = op'.arg[1]])>>
           /\ CommandChecker_receive_data(current_command, op'.arg[1], <<>>).device = <<>>
           /\ sent' = SentByNextCommand
    /\ (op'.name = "receive_data" /\ IsFinished(ret')
        /\ ret'[1].command.kind = "SendCommandAndDataAndReceiveResponse") =>
           ReceivedIn("SendCommandAndDataAndReceiveResponse", "WaitResponse")

\* C34: a SendCommandAndDataAndReceiveResponse command goes through the ACK
\* of the command byte, the payload write, the second ACK and one response
\* byte, in this order; in WaitResponse the next byte of any value, ACK and
\* RESEND included, is stored as the response and finishes the command, and
\* the command sends nothing more.
C34_ResponseAfterTwoAcks == [][ResponseAfterTwoAcks]_vars

\* RESEND arrived as the response and finished the command.
C34_Witness ==
    /\ op = [name |-> "receive_data", arg |-> <<RESEND>>]
    /\ IsFinished(ret)
    /\ ret[1].command.kind = "SendCommandAndDataAndReceiveResponse"
    /\ ret[1].command.response = RESEND
    /\ sent = <<>>

(***************************************************************************)
(* Further properties of the keyboard session (SelectionSpec).             *)
(***************************************************************************)
\* receive_data was called while the given command was in flight.
ReceivedWhile(command) ==
    /\ op'.name = "receive_data"
    /\ current_command = <<command>>

\* The query in its sub-state.
Query(substate) == [get_current_scancode_set EXCEPT !.state = substate]

\* What receive_data returns for the response to the query, and the decoder
\* it leaves.
ScancodeSetAnswer(response) ==
    IF response \in {1, 2, 3}
    THEN [tag |-> "Ok", value |-> <<[event |-> "ScancodeSet", set |-> response]>>]
    ELSE [tag |-> "Err", error |-> [kind |-> "UnknownScancodeSet", value |-> response]]

DecoderAfter(response) ==
    CASE response = 1 -> change_decoder("Set1")
      [] response = 2 -> change_decoder("Set2")
      [] OTHER -> current_decoder

\* set_alternate_scancode_set(n) queues the command 0xF0 with the payload n
\* and the query 0xF0 with the payload 0 behind it; a device that acknowledges
\* gets 0xF0, n, 0xF0, 0x00, and the response among the bytes is answered.
SelectionSequence(bytes) ==
    /\ (op'.name = "set_alternate_scancode_set" /\ ret'.tag = "Ok") =>
           /\ Pending([commands |-> commands', current_command |-> current_command'])
                  = Pending(Queue) \o <<set_alternate_scancodes(op'.arg[1]),
                                        get_current_scancode_set>>
           /\ sent' = IF current_command = <<>> THEN <<240>> ELSE <<>>
    /\ (/\ op'.name = "receive_data"
        /\ commands # <<>>
        /\ Head(commands).command = 240
        /\ current_command' = <<Head(commands)>>) => sent' = <<240>>
    /\ \A n \in ScancodeSettingArgs :
           /\ (ReceivedWhile(set_alternate_scancodes(n)) /\ op'.arg = <<ACK>>) =>
                  sent' = <<n>>
           /\ (ReceivedWhile([set_alternate_scancodes(n) EXCEPT !.state = "WaitAck2"])
               /\ op'.arg = <<ACK>>) =>
                  /\ commands # <<>>
                  /\ Head(commands) = get_current_scancode_set
                  /\ current_command' = <<get_current_scancode_set>>
                  /\ sent' = <<240>>
    /\ (ReceivedWhile(Query("WaitAck1")) /\ op'.arg = <<ACK>>) =>
           sent' = <<0>> /\ current_command' = <<Query("WaitAck2")>>
    /\ (ReceivedWhile(Query("WaitAck2")) /\ op'.arg = <<ACK>>) =>
           sent' = <<>> /\ current_command' = <<Query("WaitResponse")>>
    /\ (ReceivedWhile(Query("WaitResponse")) /\ op'.arg[1] \in bytes) =>
           /\ ret' = ScancodeSetAnswer(op'.arg[1])
           /\ current_decoder' = DecoderAfter(op'.arg[1])
           /\ decoded' = <<>>

\* C35 as stated: the responses 1, 2 and 3 and every other response byte.
C35_AnyResponse == [][SelectionSequence(0..255)]_vars

\* C35: set_alternate_scancode_set(n) queues two commands, so that a device
\* that acknowledges every byte is sent 0xF0, n, 0xF0, 0x00 in this order; the
\* response 1 or 2 switches the decoder to that set and returns ScancodeSet,
\* 3 returns ScancodeSet(Set3) and any other response but 0x00, 0xFF, 0xFC and
\* 0xAA returns Err(UnknownScancodeSet(response)), both with the decoder as it
\* was.
C35_SelectionSequence ==
    [][SelectionSequence({b \in 0..255 : ~IsSentinel(b)})]_vars

\* The query was answered 1 while the decoder was not that of set 1.
C35_Witness ==
    /\ op = [name |-> "receive_data", arg |-> <<1>>]
    /\ ret = ScancodeSetAnswer(1)
    /\ current_decoder = change_decoder("Set1")

\* The status with which the decoder is fed: UnexpectedData, or a finished
\* SendCommandAndDataSingleAck.
FeedsDecoder(result) ==
    /\ result # <<>>
    /\ \/ result[1].tag = "UnexpectedData"
       \/ /\ result[1].tag = "CommandFinished"
          /\ result[1].command.kind = "SendCommandAndDataSingleAck"

\* One receive_data call with a byte that is not intercepted: where the byte
\* went.
RoutedOnce ==
    (op'.name = "receive_data" /\ ~IsSentinel(op'.arg[1])) =>
        LET byte == op'.arg[1] IN
        LET r == CommandQueue_receive_data(Keyboard, byte, <<>>) IN
        /\ decoded' \in {<<>>, <<byte>>}
        /\ empty(Keyboard) =>
               /\ UNCHANGED <<commands, current_command>>
               /\ sent' = <<>>
               /\ IF byte = RESEND
                  THEN /\ ret' = OkNone
                       /\ decoded' = <<>>
                       /\ UNCHANGED current_decoder
                  ELSE DecodedOnce(byte)
        /\ ~empty(Keyboard) =>
               /\ commands' = r.commands
               /\ current_command' = r.current_command
               /\ sent' = r.device
               /\ IF FeedsDecoder(r.result)
                  THEN DecodedOnce(byte)
                  ELSE decoded' = <<>>
               /\ r.result = <<CommandInProgress>> => ret' = OkNone

\* C36: a receive_data call with a byte other than 0x00, 0xFF, 0xFC and 0xAA
\* feeds the decoder at most once, and with that byte: an idle queue swallows
\* RESEND (Ok(None), decoder not fed, nothing sent) and decodes every other
\* byte; an active queue gets the byte, and the decoder is fed exactly when
\* the status is UnexpectedData or a finished SendCommandAndDataSingleAck,
\* while CommandInProgress gives Ok(None) with the decoder not fed.
C36_RoutedOnce == [][RoutedOnce]_vars

\* A byte that the command in flight did not expect was decoded: the command
\* stayed in flight and nothing was sent.
C36_Witness ==
    /\ op.name = "receive_data"
    /\ ~IsSentinel(op.arg[1])
    /\ current_command # <<>>
    /\ decoded = op.arg
    /\ sent = <<>>

(***************************************************************************)
(* Further properties of the command queue (QueueSpec, QueueLiveSpec).     *)
(***************************************************************************)
\* The accepted commands that are not finished are those of the queue: an
\* accepted add is one more, a CommandFinished status one less, and no other
\* call changes their number.
UnfinishedCounted ==
    Len(Pending([commands |-> commands', current_command |-> current_command'])) =
        Len(Pending(Queue))
            + (IF op'.name = "add" /\ ret'[1].tag = "Ok" THEN 1 ELSE 0)
            - (IF op'.name = "receive_data" /\ IsFinished(ret') THEN 1 ELSE 0)

\* A waiting command has a command in flight before it.
WaitsBehindInFlight ==
    /\ commands # <<>> => current_command # <<>>
    /\ empty(Queue) <=> Pending(Queue) = <<>>
    /\ empty(Queue) <=> current_command = <<>>
    /\ Len(commands) = Capacity => current_command # <<>>

\* C37: in every state reached from CommandQueue::new by add and receive_data
\* calls a FIFO that holds a command has a command in flight; empty() is true
\* exactly when no accepted command is unfinished, and a full FIFO has a
\* command in flight.
C37_WaitsBehindInFlight == [][UnfinishedCounted]_vars /\ []WaitsBehindInFlight

\* The FIFO is full behind a command in flight.
C37_Witness ==
    /\ Len(commands) = Capacity
    /\ current_command # <<>>

\* The device answers: receive_data is called with the byte the sub-state of
\* the command in flight expects, or with RESEND where the command answers it
\* with a re-send.
AnswersExpected ==
    (op'.name = "receive_data" /\ current_command # <<>>) =>
        \/ ReSend
        \/ WaitsForAck(current_command[1]) =>
               op'.arg = <<Confirmation(current_command[1])>>

\* The commands of the queue, in flight and waiting, after the step.
PendingAfter == Pending([commands |-> commands', current_command |-> current_command'])

\* The commands of the first sequence are those of the second, in its order.
SameCommands(after, before) ==
    /\ Len(after) = Len(before)
    /\ \A i \in 1..Len(before) : SameCommand(after[i], before[i])

\* An accepted command joins the queue behind the commands it holds, the
\* command a CommandFinished status returns is the one in flight and leaves
\* the queue, and no other call adds, removes or reorders commands.
QueueKept ==
    CASE op'.name = "add" /\ ret'[1].tag = "Ok" ->
            SameCommands(PendingAfter, Append(Pending(Queue), op'.arg[1]))
      [] op'.name = "receive_data" /\ IsFinished(ret') ->
            /\ current_command # <<>>
            /\ SameCommand(ret'[1].command, current_command[1])
            /\ SameCommands(PendingAfter, commands)
      [] OTHER -> SameCommands(PendingAfter, Pending(Queue))

\* receive_data returned a command in a CommandFinished status.
ReturnedFinished == op.name = "receive_data" /\ IsFinished(ret)

\* C38: if the device answers every byte sent and, after finitely many RESEND
\* bytes (and finitely many other bytes), with the byte the sub-state of the
\* command in flight expects, then every command accepted by add is
\* eventually returned in a CommandFinished status, and the queue of a caller
\* that adds no further command becomes empty.  An accepted command stays in
\* the queue, in its place, until a CommandFinished status returns it
\* (QueueKept), and the command in flight is eventually returned, so that the
\* one behind it is in flight.
C38_AcceptedCommandsFinish ==
    /\ [][QueueKept]_vars
    /\ (/\ <>[][AnswersExpected /\ ~ReSend]_vars
        /\ []<><<op'.name = "receive_data">>_vars) =>
           /\ current_command # <<>> ~> ReturnedFinished
           /\ <>[][op'.name # "add"]_vars => <>[]empty(Queue)

\* The query of the scancode set, the command with the longest exchange, was
\* returned finished and left the queue empty.
C38_Witness ==
    /\ ReturnedFinished
    /\ SameCommand(ret[1].command, get_current_scancode_set)
    /\ empty(Queue)

(***************************************************************************)
(* Further properties of one call of                                       *)
(* send_controller_command_and_wait_response (HandshakeSpec).              *)
(***************************************************************************)
\* C39: whenever device data arrives among the port accesses of the call, the
\* byte returned for READ_CONTROLLER_COMMAND_BYTE, which configure modifies
\* and writes back as the command byte, is the command byte the controller
\* answered with and never a byte of the keyboard or the auxiliary device.
C39_CommandByteFromController ==
    (pc = "done" /\ op.arg = <<READ_CONTROLLER_COMMAND_BYTE>>) =>
        ret = <<port_io.command_byte>>

(***************************************************************************)
(* Further properties of the enable_* transitions (ControllerSpec).        *)
(***************************************************************************)
\* The two transitions that select both devices.
EnableBothNames ==
    {"enable_keyboard_and_auxiliary_device",
     "enable_keyboard_and_auxiliary_device_and_interrupts"}

\* Both interface tests are written, the keyboard test first, and the error
\* names the keyboard whenever its test failed.
BothInterfacesTested ==
    op'.name \in EnableBothNames =>
        LET written == CommandSeq(io')
            keyboard == AnswersTo(io', KEYBOARD_INTERFACE_TEST)
            auxiliary == AnswersTo(io', AUXILIARY_DEVICE_INTERFACE_TEST)
        IN  /\ Len(written) >= 2
            /\ written[1] = KEYBOARD_INTERFACE_TEST
            /\ written[2] = AUXILIARY_DEVICE_INTERFACE_TEST
            /\ Cardinality(keyboard) = 1
            /\ Cardinality(auxiliary) = 1
            /\ keyboard # {0} =>
                   /\ ret'.tag = "Err"
                   /\ ret'.error \in {[kind |-> "Keyboard", error |-> DeviceError(b)] :
                                          b \in keyboard}
            /\ (ret'.tag = "Err" /\ ret'.error.kind = "AuxiliaryDevice") =>
                   /\ keyboard = {0}
                   /\ auxiliary # {0}
                   /\ ret'.error.error \in {DeviceError(b) : b \in auxiliary}
            /\ (keyboard = {0} /\ auxiliary # {0}) =>
                   (ret'.tag = "Err" /\ ret'.error.kind = "AuxiliaryDevice")

\* C40: enable_keyboard_and_auxiliary_device and
\* enable_keyboard_and_auxiliary_device_and_interrupts issue both interface
\* tests, the keyboard test 0xAB first and the auxiliary test 0xA9 second,
\* also when the keyboard test fails; a failed keyboard test returns
\* InterfaceError::Keyboard whatever the auxiliary test answers, and
\* InterfaceError::AuxiliaryDevice is returned only when the keyboard test
\* passed and the auxiliary test failed.
C40_BothInterfacesTested == [][BothInterfacesTested]_vars

\* Both tests failed: the auxiliary test was made after the failed keyboard
\* test and the error is that of the keyboard.
C40_Witness ==
    /\ op.name \in EnableBothNames
    /\ CommandSeq(io) = <<KEYBOARD_INTERFACE_TEST, AUXILIARY_DEVICE_INTERFACE_TEST>>
    /\ AnswersTo(io, KEYBOARD_INTERFACE_TEST) = {2}
    /\ AnswersTo(io, AUXILIARY_DEVICE_INTERFACE_TEST) = {5}
    /\ ret = [tag |-> "Err",
              error |-> [kind |-> "Keyboard", error |-> [kind |-> "ClockLineHigh"]]]

====
